---- MODULE Spec2Model ----
(***************************************************************************)
(* Openlava Web: the privilege-separated operation executor of             *)
(* openlavaweb/views.py (one MPProcess worker and one MPQueue channel per  *)
(* request) and the exception taxonomy of openlavaweb/cluster/__init__.py. *)
(*                                                                         *)
(* One request is served at a time: Request draws an endpoint and a        *)
(* request, the parent handler and its worker then interleave step by      *)
(* step, and Finish returns the handler to idle for the next request.      *)
(***************************************************************************)
EXTENDS Naturals, Sequences, FiniteSets, TLC

VARIABLES
    op,          \* the endpoint (view function) serving the request
    req,         \* the request: user, is_ajax(), GET json/confirm, method, form, body
    parentPc,    \* position of the view function in the serving process
    workerPc,    \* position of the execute_* target in the MPProcess
    parentEuid,  \* effective identity of the serving process
    workerEuid,  \* effective identity of the worker process
    workerExc,   \* the exception the worker's try block raised (or Null)
    workerRet,   \* what the worker's scheduler call returned (or Null)
    channel,     \* the MPQueue: messages put and not yet taken
    rc,          \* what the parent took from the channel (or Null)
    response,    \* what the view function gave back to the caller
    schedLog,    \* scheduler calls of this request, with caller and identity
    nSpawn,      \* MPProcess.start() calls of this request
    nPut,        \* queue.put() calls of this request
    nGet,        \* q.get() calls of this request that returned a message
    target,      \* the object the worker invokes its scheduler call on
    workerCred,  \* group id and supplementary groups of the worker process
    feeder,      \* the channel's feeder thread in the worker: idle, flushed, blocked
    obj,         \* the object handed to the resource model (entity, exception)
    doc,         \* what the resource model made of it (projection, record)
    slot,        \* concurrent invocations: per serving thread, its view's frame
    mpq          \* concurrent invocations: the MPQueue objects and their messages

\* The state of the executor, and the state of the resource model.
execVars == <<op, req, parentPc, workerPc, parentEuid, workerEuid, workerExc,
              workerRet, channel, rc, response, schedLog, nSpawn, nPut, nGet,
              target, workerCred, feeder>>

modelVars == <<obj, doc>>

concVars == <<slot, mpq>>

vars == <<op, req, parentPc, workerPc, parentEuid, workerEuid, workerExc,
          workerRet, channel, rc, response, schedLog, nSpawn, nPut, nGet, target,
          workerCred, feeder, obj, doc, slot, mpq>>

(***************************************************************************)
(* Values                                                                  *)
(***************************************************************************)
Null == [t |-> "null"]

Str(s) == [t |-> "str", v |-> s]

\* The identity the serving process runs under.
ServerIdentity == "server"

\* Group id and supplementary groups of the serving process; a forked worker
\* starts with the same.  No process before the fork.
ServerCred == [gid |-> ServerIdentity, groups |-> {ServerIdentity}]
NoCred == [gid |-> "none", groups |-> {}]

\* Concurrent invocations: the serving threads (each runs one view function at
\* a time) at rest, and no MPQueue allocated.
Slots == {1, 2}
NoSlot ==
    [pc |-> "idle", op |-> "none", user |-> "", q |-> 0, wpc |-> "none",
     weuid |-> "none", rc |-> [t |-> "null"]]
NoSlots == [i \in Slots |-> NoSlot]
NoQueues == [k \in Slots |-> <<>>]

\* Django user names that may be logged in, and those the OS user database knows.
Users == {"alice", "bob"}

OSAccounts == {"alice"}

QueueOps == {"queue_close", "queue_open", "queue_inactivate", "queue_activate"}

HostOps == {"host_close", "host_open"}

JobOps == {"job_kill", "job_suspend", "job_resume", "job_requeue"}

OutputOps == {"job_error", "job_output"}

\* The endpoints that change scheduler state.
MutatingOps == QueueOps \cup HostOps \cup JobOps \cup {"job_submit"}

Ops == MutatingOps \cup OutputOps

\* Read-only endpoints: the target is constructed and shown in the serving
\* process, without a worker.
ViewOps == {"queue_view", "job_view"}

\* class X(ClusterException): the closed taxonomy.
ClusterExceptionClasses ==
    {"NoSuchHostError", "NoSuchJobError", "NoSuchQueueError", "NoSuchUserError",
     "ResourceDoesntExistError", "ClusterInterfaceError", "PermissionDeniedError",
     "JobSubmitError"}

NotFoundClasses ==
    {"NoSuchHostError", "NoSuchJobError", "NoSuchQueueError", "NoSuchUserError",
     "ResourceDoesntExistError"}

\* An exception object: its class and the message it was raised with.
Exc(cls, msg) == [t |-> "exc", cls |-> cls, message |-> msg]

\* isinstance(x, Exception)
IsException(x) == x.t = "exc"

\* isinstance(x, ClusterException)
IsClusterException(x) == x.t = "exc" /\ x.cls \in ClusterExceptionClasses

\* The class attribute http_response of each taxonomy kind.
http_response(cls) ==
    CASE cls \in NotFoundClasses -> "HttpResponseNotFound"
      [] cls = "PermissionDeniedError" -> "HttpResponseForbidden"
      [] OTHER -> "None"

\* ClusterException.json_response
json_response(e) ==
    [t |-> "dict", exception_class |-> e.cls, message |-> e.message]

(***************************************************************************)
(* Responses                                                               *)
(***************************************************************************)
\* create_js_response(data, message, response, is_failure): the envelope,
\* handed to the response class (HttpResponse when response is None).  Http404
\* is an exception class, not a response class: it takes no content_type
\* keyword, so calling it raises TypeError.
create_js_response(data, message, resp, is_failure) ==
    LET body == [status |-> IF is_failure THEN "FAIL" ELSE "OK",
                 data |-> data,
                 message |-> message]
    IN  IF resp = "Http404"
        THEN Exc("TypeError", "unexpected keyword argument")
        ELSE [t |-> "resp", kind |-> "json",
              http |-> IF resp = "None" THEN "HttpResponse" ELSE resp,
              body |-> body]

\* A handler that forgets is_failure=True: the envelope says "OK".
handle_cluster_exception_not_failure(e) ==
    create_js_response(json_response(e), e.message, "None", FALSE)

\* handle_cluster_exception(e): the response class picked from e.http_response.
handle_cluster_exception(e) ==
    LET resp == CASE http_response(e.cls) = "HttpResponseForbidden" -> "HttpResponseForbidden"
                  [] http_response(e.cls) = "Http404" -> "Http404"
                  [] http_response(e.cls) = "HttpResponseBadRequest" -> "HttpResponseBadRequest"
                  [] OTHER -> "None"
    IN  create_js_response(json_response(e), e.message, resp, TRUE)

\* HttpResponseRedirect(reverse(view))
HttpResponseRedirect(view) == [t |-> "resp", kind |-> "redirect", to |-> view]

\* render(request, template, context)
render(template) == [t |-> "resp", kind |-> "html", template |-> template]

\* render(request, 'openlavaweb/exception.html', {'exception': e})
render_exception(e) ==
    [t |-> "resp", kind |-> "html", template |-> "exception", exception |-> e]

\* An exception that leaves the view function: no response is produced.
Fault(e) == [t |-> "fault", exception |-> e]

\* The except ClusterException clause of every endpoint.
except_ClusterException(r, e) ==
    IF r.ajax \/ r.json THEN handle_cluster_exception(e) ELSE render_exception(e)

\* A pickled message either fits the pipe under the channel or exceeds its
\* capacity.  Redirects, the fixed envelopes, paths and the errors of the OS
\* calls are short; the size of a scheduler exception (its message and named
\* extra fields come from the scheduler) and of the submitted jobs' projection
\* is not bounded by the program.
MessageSizes(m) ==
    IF IsClusterException(m)
       \/ (m.t = "resp" /\ m.kind = "json" /\ m.body.data.t = "jobs")
    THEN {"fits", "exceeds"}
    ELSE {"fits"}

\* queue.put(obj) hands obj to the queue's feeder thread, which writes it to
\* the pipe: at once when it fits, else blocking until the reader takes it.
Feeder(size) == IF size = "fits" THEN "flushed" ELSE "blocked"

(***************************************************************************)
(* What each worker enqueues after its scheduler call returned             *)
(***************************************************************************)
execute_queue_close_result(r) ==
    IF r.ajax THEN create_js_response(Null, "Queue closed", "None", FALSE)
    ELSE HttpResponseRedirect("olw_queue_view")

execute_queue_open_result(r) ==
    IF r.ajax THEN create_js_response(Null, "Queue opened", "None", FALSE)
    ELSE HttpResponseRedirect("olw_queue_view")

execute_queue_inactivate_result(r) ==
    IF r.ajax THEN create_js_response(Null, "Queue inactivated", "None", FALSE)
    ELSE HttpResponseRedirect("olw_queue_view")

execute_queue_activate_result(r) ==
    IF r.ajax THEN create_js_response(Null, "Queue activated", "None", FALSE)
    ELSE HttpResponseRedirect("olw_queue_view")

execute_host_close_result(r) ==
    IF r.ajax THEN create_js_response(Null, "", "None", FALSE)
    ELSE HttpResponseRedirect("olw_host_view")

execute_host_open_result(r) ==
    IF r.ajax THEN create_js_response(Null, "", "None", FALSE)
    ELSE HttpResponseRedirect("olw_host_view")

\* create_js_response("Job Killed"): the first positional parameter is data.
execute_job_kill_result(r) ==
    IF r.ajax THEN create_js_response(Str("Job Killed"), "", "None", FALSE)
    ELSE HttpResponseRedirect("olw_job_list")

execute_job_suspend_result(r) ==
    IF r.ajax \/ r.json THEN create_js_response(Null, "Job suspended", "None", FALSE)
    ELSE HttpResponseRedirect("olw_job_view_array")

execute_job_resume_result(r) ==
    IF r.ajax \/ r.json THEN create_js_response(Null, "Job Resumed", "None", FALSE)
    ELSE HttpResponseRedirect("olw_job_view_array")

execute_job_requeue_result(r) ==
    IF r.ajax \/ r.json THEN create_js_response(Null, "Job Requeued", "None", FALSE)
    ELSE HttpResponseRedirect("olw_job_view_array")

\* json.loads(request.body) when the request is AJAX or carries json, else None.
ajax_args(r) == IF r.ajax \/ r.json THEN r.body ELSE "None"

\* Python truth of ajax_args: None and the empty mapping are false.
Truthy(a) == a \notin {"None", "{}"}

\* The tail of OLWSubmit.submit once Job.submit returned the jobs.
OLWSubmit_submit_result(r) ==
    IF Truthy(ajax_args(r))
    THEN create_js_response([t |-> "jobs"], "Job Submitted", "None", FALSE)
    ELSE HttpResponseRedirect("olw_job_view_array")

(***************************************************************************)
(* Per-endpoint tables                                                     *)
(***************************************************************************)
\* What the worker of a mutating endpoint enqueues on success.
WorkerResult(o, r) ==
    CASE o = "queue_close" -> execute_queue_close_result(r)
      [] o = "queue_open" -> execute_queue_open_result(r)
      [] o = "queue_inactivate" -> execute_queue_inactivate_result(r)
      [] o = "queue_activate" -> execute_queue_activate_result(r)
      [] o = "host_close" -> execute_host_close_result(r)
      [] o = "host_open" -> execute_host_open_result(r)
      [] o = "job_kill" -> execute_job_kill_result(r)
      [] o = "job_suspend" -> execute_job_suspend_result(r)
      [] o = "job_resume" -> execute_job_resume_result(r)
      [] o = "job_requeue" -> execute_job_requeue_result(r)
      [] OTHER -> OLWSubmit_submit_result(r)

\* The endpoints whose parent tests isinstance(rc, ClusterException); the
\* others test isinstance(rc, Exception).
ChecksClusterExceptionOnly == {"queue_close", "host_close"}

\* A test that takes every request as confirmed.
Confirmed_always(r) == TRUE

\* if request.GET.get('confirm') or request.is_ajax() or request.GET.get("json")
Confirmed(r) == r.confirm \/ r.ajax \/ r.json

\* job_submit goes on to the worker for an AJAX/json request or a valid POST.
SubmitProceeds(r) == r.ajax \/ r.json \/ (r.method = "POST" /\ r.formValid)

\* request.user of a caller who is not logged in: AnonymousUser, whose username
\* is the empty string.
AnonymousUser == ""
Callers == Users \cup {AnonymousUser}

\* request.user.is_authenticated()
is_authenticated(r) == r.user # AnonymousUser

\* The endpoints decorated with @login_required.
LoginRequired == MutatingOps

\* The requests an endpoint may receive.
Requests(o) ==
    IF o = "job_submit"
    THEN [user : Callers, ajax : {TRUE}, json : BOOLEAN, confirm : {FALSE},
          method : {"POST"}, formValid : {FALSE}, body : {"{}", "{command}"}]
         \cup
         [user : Callers, ajax : {FALSE}, json : {TRUE}, confirm : {FALSE},
          method : {"POST"}, formValid : {FALSE}, body : {"{}", "{command}"}]
         \cup
         [user : Callers, ajax : {FALSE}, json : {FALSE}, confirm : {FALSE},
          method : {"GET", "POST"}, formValid : BOOLEAN, body : {""}]
    ELSE IF o \in ViewOps
    THEN [user : Callers, ajax : BOOLEAN, json : BOOLEAN, confirm : {FALSE},
          method : {"GET"}, formValid : {FALSE}, body : {""}]
    ELSE [user : Callers, ajax : BOOLEAN, json : BOOLEAN, confirm : BOOLEAN,
          method : {"GET"}, formValid : {FALSE}, body : {""}]

NoRequest ==
    [user |-> "alice", ajax |-> FALSE, json |-> FALSE, confirm |-> FALSE,
     method |-> "GET", formValid |-> FALSE, body |-> ""]

(***************************************************************************)
(* The scheduler, as the worker sees it                                    *)
(***************************************************************************)
\* What constructing the target (Queue(name), Host(name), Job(id, index)) may raise.
ResolveFailures(o) ==
    CASE o \in QueueOps ->
            {Exc("NoSuchQueueError", "Queue not found"), Exc("ValueError", "Queue not found")}
      [] o \in HostOps ->
            {Exc("NoSuchHostError", "Host not found")}
      [] OTHER ->
            {Exc("NoSuchJobError", "Job not found"), Exc("NoSuchJobError", "Job was purged")}

\* What the scheduler call on the target may raise.
CallFailures(o) ==
    {Exc("PermissionDeniedError", "User permission denied"),
     Exc("ClusterInterfaceError", "Unable to contact scheduler")}
    \cup (IF o = "job_submit" THEN {Exc("JobSubmitError", "Job not submitted")} ELSE {})

\* job.get_output_path(): a path, or nothing.
OutputPaths == {"", "/home/alice/job1", "/home/alice/job2"}

\* path += ".err" (job_error), path += ".out" (job_output)
Suffix(o) == IF o = "job_error" THEN ".err" ELSE ".out"
DerivedPath(o, path) == <<path, Suffix(o)>>

\* The files on disk: job1 wrote both streams, job2 its output only.
ExistingFiles ==
    {<<"/home/alice/job1", ".err">>, <<"/home/alice/job1", ".out">>,
     <<"/home/alice/job2", ".out">>}

\* os.path.exists(path)
os_path_exists(path) == path \in ExistingFiles

\* HttpResponse("Not Available", ...)
NotAvailable == [t |-> "resp", kind |-> "text", text |-> "Not Available"]

\* One scheduler call, with the process that made it and its identity then.
\* An object a scheduler call is invoked on: what it is, which process
\* constructed it and under which effective identity.
Constructed(kind, proc, euid) == [kind |-> kind, proc |-> proc, euid |-> euid]

NoTarget == Constructed("none", "none", "none")

Call(proc, call, euid) == [proc |-> proc, call |-> call, euid |-> euid]

(***************************************************************************)
(* Initial state: the serving process is idle and no worker exists         *)
(***************************************************************************)
Init ==
    /\ op = "none"
    /\ req = NoRequest
    /\ parentPc = "idle"
    /\ workerPc = "none"
    /\ parentEuid = ServerIdentity
    /\ workerEuid = "none"
    /\ workerExc = Null
    /\ workerRet = Null
    /\ channel = <<>>
    /\ rc = Null
    /\ response = Null
    /\ schedLog = <<>>
    /\ nSpawn = 0
    /\ nPut = 0
    /\ nGet = 0
    /\ target = NoTarget
    /\ workerCred = NoCred
    /\ feeder = "idle"
    /\ slot = NoSlots
    /\ mpq = NoQueues
    /\ obj = Null
    /\ doc = Null

(***************************************************************************)
(* The parent: the view function in the serving process                    *)
(***************************************************************************)
\* A request arrives at one of the endpoints.
Request ==
    /\ parentPc = "idle"
    /\ \E o \in Ops \cup ViewOps : \E r \in Requests(o) :
          /\ op' = o
          /\ req' = r
    /\ parentPc' = "dispatch"
    /\ UNCHANGED <<workerPc, parentEuid, workerEuid, workerExc, workerRet, channel,
                   rc, response, schedLog, nSpawn, nPut, nGet>>
    /\ UNCHANGED target
    /\ UNCHANGED modelVars
    /\ UNCHANGED <<workerCred, feeder>>
    /\ UNCHANGED concVars

\* @login_required: a caller who is not logged in is sent to the login page
\* and the view function is not entered.
LoginRedirect ==
    /\ parentPc = "dispatch"
    /\ op \in LoginRequired
    /\ ~is_authenticated(req)
    /\ response' = HttpResponseRedirect("login")
    /\ parentPc' = "done"
    /\ UNCHANGED <<op, req, workerPc, parentEuid, workerEuid, workerExc, workerRet,
                   channel, rc, schedLog, nSpawn, nPut, nGet>>
    /\ UNCHANGED target
    /\ UNCHANGED modelVars
    /\ UNCHANGED <<workerCred, feeder>>
    /\ UNCHANGED concVars

\* The else branch of the queue, host and job endpoints: the target is
\* constructed in the serving process and the confirmation page rendered.  A
\* failure of the construction is outside any try block.
ConfirmPage ==
    /\ parentPc = "dispatch"
    /\ op \in QueueOps \cup HostOps \cup JobOps
    /\ is_authenticated(req)
    /\ ~Confirmed(req)
    /\ schedLog' = Append(schedLog, Call("parent", "resolve", parentEuid))
    /\ \/ response' = render("confirm")
       \/ \E e \in ResolveFailures(op) : response' = Fault(e)
    /\ parentPc' = "done"
    /\ UNCHANGED <<op, req, workerPc, parentEuid, workerEuid, workerExc, workerRet,
                   channel, rc, nSpawn, nPut, nGet>>
    /\ UNCHANGED target
    /\ UNCHANGED modelVars
    /\ UNCHANGED <<workerCred, feeder>>
    /\ UNCHANGED concVars

\* job_submit before the worker: the form is rendered (again) when it was not
\* submitted or is not valid.
SubmitForm ==
    /\ parentPc = "dispatch"
    /\ op = "job_submit"
    /\ is_authenticated(req)
    /\ ~SubmitProceeds(req)
    /\ response' = render("job_submit")
    /\ parentPc' = "done"
    /\ UNCHANGED <<op, req, workerPc, parentEuid, workerEuid, workerExc, workerRet,
                   channel, rc, schedLog, nSpawn, nPut, nGet>>
    /\ UNCHANGED target
    /\ UNCHANGED modelVars
    /\ UNCHANGED <<workerCred, feeder>>
    /\ UNCHANGED concVars

\* q = MPQueue(); p = MPProcess(target=execute_..., kwargs=...); p.start()
\* job_submit goes on to q.get(True), every other endpoint to p.join().
Spawn ==
    /\ parentPc = "dispatch"
    /\ op \in LoginRequired => is_authenticated(req)
    /\ \/ op \in QueueOps \cup HostOps \cup JobOps /\ Confirmed(req)
       \/ op \in OutputOps
       \/ op = "job_submit" /\ SubmitProceeds(req)
    /\ channel' = <<>>
    /\ nSpawn' = nSpawn + 1
    /\ workerPc' = "getpwnam"
    /\ workerEuid' = parentEuid
    /\ target' = IF op = "job_submit"
                 THEN Constructed("form", "parent", parentEuid)
                 ELSE NoTarget
    /\ parentPc' = IF op = "job_submit" THEN "get" ELSE "join"
    /\ UNCHANGED <<op, req, parentEuid, workerExc, workerRet, rc, response,
                   schedLog, nPut, nGet>>
    /\ UNCHANGED modelVars
    /\ workerCred' = ServerCred
    /\ feeder' = "idle"
    /\ UNCHANGED concVars

\* p.join(): returns once the worker has exited; no timeout is given.
Join ==
    /\ parentPc = "join"
    /\ workerPc \in {"exited", "killed"}
    /\ parentPc' = IF op = "job_submit" THEN "respond" ELSE "get"
    /\ UNCHANGED <<op, req, workerPc, parentEuid, workerEuid, workerExc, workerRet,
                   channel, rc, response, schedLog, nSpawn, nPut, nGet>>
    /\ UNCHANGED target
    /\ UNCHANGED modelVars
    /\ UNCHANGED <<workerCred, feeder>>
    /\ UNCHANGED concVars

\* rc = q.get(False) after the join: Queue.Empty is raised on an empty queue,
\* and no except clause of the endpoint catches it.
GetNoWait ==
    /\ parentPc = "get"
    /\ op \in QueueOps \cup HostOps \cup JobOps
    /\ IF channel = <<>>
       THEN /\ response' = Fault(Exc("Empty", ""))
            /\ parentPc' = "done"
            /\ UNCHANGED <<rc, channel, nGet>>
       ELSE /\ rc' = Head(channel)
            /\ channel' = Tail(channel)
            /\ nGet' = nGet + 1
            /\ parentPc' = "respond"
            /\ UNCHANGED response
    /\ UNCHANGED <<op, req, workerPc, parentEuid, workerEuid, workerExc, workerRet,
                   schedLog, nSpawn, nPut>>
    /\ UNCHANGED target
    /\ UNCHANGED modelVars
    /\ feeder' = IF channel = <<>> THEN feeder ELSE "idle"
    /\ UNCHANGED workerCred
    /\ UNCHANGED concVars

\* A parent that takes the message without asking whether one is there:
\* q.get(False) on an empty channel raises Empty.
GetPath_raising_on_empty ==
    /\ parentPc = "get"
    /\ op \in OutputOps
    /\ IF channel = <<>>
       THEN /\ rc' = Exc("Empty", "")
            /\ UNCHANGED <<channel, nGet>>
       ELSE /\ rc' = Head(channel)
            /\ channel' = Tail(channel)
            /\ nGet' = nGet + 1
    /\ parentPc' = "respond"
    /\ UNCHANGED <<op, req, workerPc, parentEuid, workerEuid, workerExc, workerRet,
                   response, schedLog, nSpawn, nPut>>
    /\ UNCHANGED target
    /\ UNCHANGED modelVars
    /\ feeder' = IF channel = <<>> THEN feeder ELSE "idle"
    /\ UNCHANGED workerCred
    /\ UNCHANGED concVars

\* job_error, job_output: if q.empty(): path = None else: path = q.get(False)
GetPath ==
    /\ parentPc = "get"
    /\ op \in OutputOps
    /\ IF channel = <<>>
       THEN /\ rc' = Null
            /\ UNCHANGED <<channel, nGet>>
       ELSE /\ rc' = Head(channel)
            /\ channel' = Tail(channel)
            /\ nGet' = nGet + 1
    /\ parentPc' = "respond"
    /\ UNCHANGED <<op, req, workerPc, parentEuid, workerEuid, workerExc, workerRet,
                   response, schedLog, nSpawn, nPut>>
    /\ UNCHANGED target
    /\ UNCHANGED modelVars
    /\ feeder' = IF channel = <<>> THEN feeder ELSE "idle"
    /\ UNCHANGED workerCred
    /\ UNCHANGED concVars

\* job_submit: rc = q.get(True) blocks until a message is there; no timeout is given.
GetBlocking ==
    /\ parentPc = "get"
    /\ op = "job_submit"
    /\ channel # <<>>
    /\ rc' = Head(channel)
    /\ channel' = Tail(channel)
    /\ nGet' = nGet + 1
    /\ parentPc' = "join"
    /\ UNCHANGED <<op, req, workerPc, parentEuid, workerEuid, workerExc, workerRet,
                   response, schedLog, nSpawn, nPut>>
    /\ UNCHANGED target
    /\ UNCHANGED modelVars
    /\ feeder' = "idle"
    /\ UNCHANGED workerCred
    /\ UNCHANGED concVars

\* What leaves the view function once the except ClusterException clause ran.
Handled(r, e) ==
    LET h == except_ClusterException(r, e)
    IN  IF IsException(h) THEN Fault(h) ELSE h

\* if isinstance(rc, Exception): raise rc  else: return rc
\* (queue_close and host_close test isinstance(rc, ClusterException)), inside
\* try: ... except ClusterException as e.
RaiseOrReturn(o, r, x) ==
    IF o \in ChecksClusterExceptionOnly
    THEN IF IsClusterException(x) THEN Handled(r, x) ELSE x
    ELSE IF IsException(x)
         THEN IF IsClusterException(x) THEN Handled(r, x) ELSE Fault(x)
         ELSE x

\* create_js_response(entity): json.dumps with ClusterEncoder either yields the
\* envelope or raises what an attribute accessor raised.
ProjectionResponses(type) ==
    {create_js_response([t |-> "projection", type |-> type], "", "None", FALSE),
     Fault(Exc("NotImplementedError", ""))}

\* job_view: Job(...) and the response are inside try ... except ClusterException.
JobView ==
    /\ parentPc = "dispatch"
    /\ op = "job_view"
    /\ schedLog' = Append(schedLog, Call("parent", "resolve", parentEuid))
    /\ \/ IF req.ajax \/ req.json
          THEN response' \in ProjectionResponses("Job")
          ELSE response' = render("job_detail")
       \/ \E e \in ResolveFailures(op) : response' = Handled(req, e)
    /\ parentPc' = "done"
    /\ UNCHANGED <<op, req, workerPc, parentEuid, workerEuid, workerExc, workerRet,
                   channel, rc, nSpawn, nPut, nGet>>
    /\ UNCHANGED target
    /\ UNCHANGED modelVars
    /\ UNCHANGED <<workerCred, feeder>>
    /\ UNCHANGED concVars

\* queue_view: except ValueError: raise Http404("Queue not found"); any other
\* exception of Queue(queue_name) leaves the view function.
QueueView ==
    /\ parentPc = "dispatch"
    /\ op = "queue_view"
    /\ schedLog' = Append(schedLog, Call("parent", "resolve", parentEuid))
    /\ \/ IF req.ajax \/ req.json
          THEN response' \in ProjectionResponses("Queue")
          ELSE response' = render("queue_detail")
       \/ \E e \in ResolveFailures("queue_close") :
             response' = IF e.cls = "ValueError"
                         THEN Fault(Exc("Http404", "Queue not found"))
                         ELSE Fault(e)
    /\ parentPc' = "done"
    /\ UNCHANGED <<op, req, workerPc, parentEuid, workerEuid, workerExc, workerRet,
                   channel, rc, nSpawn, nPut, nGet>>
    /\ UNCHANGED target
    /\ UNCHANGED modelVars
    /\ UNCHANGED <<workerCred, feeder>>
    /\ UNCHANGED concVars

\* A parent that starts the operation over when the worker reported a failure.
Respond_retrying ==
    /\ parentPc = "respond"
    /\ op \in MutatingOps
    /\ IF IsException(rc)
       THEN /\ parentPc' = "dispatch"
            /\ UNCHANGED response
       ELSE /\ response' = RaiseOrReturn(op, req, rc)
            /\ parentPc' = "done"
    /\ UNCHANGED <<op, req, workerPc, parentEuid, workerEuid, workerExc, workerRet,
                   channel, rc, schedLog, nSpawn, nPut, nGet>>
    /\ UNCHANGED target
    /\ UNCHANGED modelVars
    /\ UNCHANGED <<workerCred, feeder>>
    /\ UNCHANGED concVars

Respond ==
    /\ parentPc = "respond"
    /\ op \in MutatingOps
    /\ response' = RaiseOrReturn(op, req, rc)
    /\ parentPc' = "done"
    /\ UNCHANGED <<op, req, workerPc, parentEuid, workerEuid, workerExc, workerRet,
                   channel, rc, schedLog, nSpawn, nPut, nGet>>
    /\ UNCHANGED target
    /\ UNCHANGED modelVars
    /\ UNCHANGED <<workerCred, feeder>>
    /\ UNCHANGED concVars

\* job_error, job_output: a failure is re-raised; the file path + ".err"/".out"
\* is served when it exists, "Not Available" otherwise.
RespondPath ==
    /\ parentPc = "respond"
    /\ op \in OutputOps
    /\ IF IsException(rc)
       THEN response' = RaiseOrReturn(op, req, rc)
       ELSE IF rc.t = "path" /\ rc.v # "" /\ os_path_exists(DerivedPath(op, rc.v))
            THEN response' = [t |-> "resp", kind |-> "file",
                              path |-> DerivedPath(op, rc.v)]
            ELSE response' = NotAvailable
    /\ parentPc' = "done"
    /\ UNCHANGED <<op, req, workerPc, parentEuid, workerEuid, workerExc, workerRet,
                   channel, rc, schedLog, nSpawn, nPut, nGet>>
    /\ UNCHANGED target
    /\ UNCHANGED modelVars
    /\ UNCHANGED <<workerCred, feeder>>
    /\ UNCHANGED concVars

\* The response has been returned; the serving process takes the next request.
\* Queue and worker of the request are dropped with the view function's frame.
Finish ==
    /\ parentPc = "done"
    /\ op' = "none"
    /\ req' = NoRequest
    /\ parentPc' = "idle"
    /\ workerPc' = "none"
    /\ workerEuid' = "none"
    /\ workerExc' = Null
    /\ workerRet' = Null
    /\ channel' = <<>>
    /\ rc' = Null
    /\ response' = Null
    /\ schedLog' = <<>>
    /\ nSpawn' = 0
    /\ nPut' = 0
    /\ nGet' = 0
    /\ target' = NoTarget
    /\ UNCHANGED parentEuid
    /\ UNCHANGED modelVars
    /\ workerCred' = NoCred
    /\ feeder' = "idle"
    /\ UNCHANGED concVars

(***************************************************************************)
(* The worker: the execute_* target in the MPProcess                       *)
(***************************************************************************)
\* A lookup that goes on to the drop although the user database has no such name.
W_getpwnam_unchecked ==
    /\ workerPc = "getpwnam"
    /\ workerPc' = "setuid"
    /\ UNCHANGED <<op, req, parentPc, parentEuid, workerEuid, workerExc, workerRet,
                   channel, rc, response, schedLog, nSpawn, nPut, nGet>>
    /\ UNCHANGED target
    /\ UNCHANGED modelVars
    /\ UNCHANGED <<workerCred, feeder>>
    /\ UNCHANGED concVars

\* user_id = pwd.getpwnam(request.user.username).pw_uid
\* KeyError when the user database has no such name.
W_getpwnam ==
    /\ workerPc = "getpwnam"
    /\ IF req.user \in OSAccounts
       THEN /\ workerPc' = "setuid"
            /\ UNCHANGED workerExc
       ELSE /\ workerExc' = Exc("KeyError", "getpwnam(): name not found")
            /\ workerPc' = "except"
    /\ UNCHANGED <<op, req, parentPc, parentEuid, workerEuid, workerRet, channel, rc,
                   response, schedLog, nSpawn, nPut, nGet>>
    /\ UNCHANGED target
    /\ UNCHANGED modelVars
    /\ UNCHANGED <<workerCred, feeder>>
    /\ UNCHANGED concVars

\* A drop whose failure is ignored: the worker goes on under the identity it has.
W_setuid_ignoring_failure ==
    /\ workerPc = "setuid"
    /\ \E ok \in BOOLEAN :
          workerEuid' = IF ok THEN req.user ELSE workerEuid
    /\ workerPc' = IF op = "job_submit" THEN "submit" ELSE "resolve"
    /\ UNCHANGED <<op, req, parentPc, parentEuid, workerExc, workerRet, channel, rc,
                   response, schedLog, nSpawn, nPut, nGet>>
    /\ UNCHANGED target
    /\ UNCHANGED modelVars
    /\ UNCHANGED <<workerCred, feeder>>
    /\ UNCHANGED concVars

\* os.setuid(user_id): the worker takes the user's identity, or OSError is
\* raised (the serving process may lack the right to change identity).
W_setuid ==
    /\ workerPc = "setuid"
    /\ \E ok \in BOOLEAN :
          IF ok
          THEN /\ workerEuid' = req.user
               /\ workerPc' = IF op = "job_submit" THEN "submit" ELSE "resolve"
               /\ UNCHANGED workerExc
          ELSE /\ workerExc' = Exc("OSError", "Operation not permitted")
               /\ workerPc' = "except"
               /\ UNCHANGED workerEuid
    /\ UNCHANGED <<op, req, parentPc, parentEuid, workerRet, channel, rc, response,
                   schedLog, nSpawn, nPut, nGet>>
    /\ UNCHANGED target
    /\ UNCHANGED modelVars
    /\ UNCHANGED <<workerCred, feeder>>
    /\ UNCHANGED concVars

\* q = Queue(queue_name) / h = Host(host_name) / job = Job(job_id=..., array_index=...)
W_resolve ==
    /\ workerPc = "resolve"
    /\ schedLog' = Append(schedLog, Call("worker", "resolve", workerEuid))
    /\ \/ /\ workerPc' = "call"
          /\ target' = Constructed("entity", "worker", workerEuid)
          /\ UNCHANGED workerExc
       \/ \E e \in ResolveFailures(op) :
             /\ workerExc' = e
             /\ workerPc' = "except"
             /\ UNCHANGED target
    /\ UNCHANGED <<op, req, parentPc, parentEuid, workerEuid, workerRet, channel, rc,
                   response, nSpawn, nPut, nGet>>
    /\ UNCHANGED modelVars
    /\ UNCHANGED <<workerCred, feeder>>
    /\ UNCHANGED concVars

\* A mutating call that is made again when the scheduler reported a failure.
W_mutate_retrying ==
    /\ workerPc = "call"
    /\ op \in QueueOps \cup HostOps \cup JobOps
    /\ \/ /\ schedLog' = Append(schedLog, Call("worker", "mutate", workerEuid))
          /\ workerRet' = WorkerResult(op, req)
          /\ workerPc' = "put"
          /\ UNCHANGED workerExc
       \/ \E e \in CallFailures(op) :
             /\ schedLog' = schedLog \o << Call("worker", "mutate", workerEuid),
                                           Call("worker", "mutate", workerEuid) >>
             /\ workerExc' = e
             /\ workerPc' = "except"
             /\ UNCHANGED workerRet
    /\ UNCHANGED <<op, req, parentPc, parentEuid, workerEuid, channel, rc, response,
                   nSpawn, nPut, nGet>>
    /\ UNCHANGED target
    /\ UNCHANGED modelVars
    /\ UNCHANGED <<workerCred, feeder>>
    /\ UNCHANGED concVars

\* q.close(), q.open(), q.inactivate(), q.activate(), h.close(), h.open(),
\* job.kill(), job.suspend(), job.resume(), job.requeue(hold=hold): the one
\* mutating call, then the response to enqueue is built.
W_mutate ==
    /\ workerPc = "call"
    /\ op \in QueueOps \cup HostOps \cup JobOps
    /\ schedLog' = Append(schedLog, Call("worker", "mutate", workerEuid))
    /\ \/ /\ workerRet' = WorkerResult(op, req)
          /\ workerPc' = "put"
          /\ UNCHANGED workerExc
       \/ \E e \in CallFailures(op) :
             /\ workerExc' = e
             /\ workerPc' = "except"
             /\ UNCHANGED workerRet
    /\ UNCHANGED <<op, req, parentPc, parentEuid, workerEuid, channel, rc, response,
                   nSpawn, nPut, nGet>>
    /\ UNCHANGED target
    /\ UNCHANGED modelVars
    /\ UNCHANGED <<workerCred, feeder>>
    /\ UNCHANGED concVars

\* path = job.get_output_path()
W_get_output_path ==
    /\ workerPc = "call"
    /\ op \in OutputOps
    /\ schedLog' = Append(schedLog, Call("worker", "read", workerEuid))
    /\ \/ \E path \in OutputPaths :
             /\ workerRet' = [t |-> "path", v |-> path]
             /\ workerPc' = "put"
             /\ UNCHANGED workerExc
       \/ \E e \in CallFailures(op) :
             /\ workerExc' = e
             /\ workerPc' = "except"
             /\ UNCHANGED workerRet
    /\ UNCHANGED <<op, req, parentPc, parentEuid, workerEuid, channel, rc, response,
                   nSpawn, nPut, nGet>>
    /\ UNCHANGED target
    /\ UNCHANGED modelVars
    /\ UNCHANGED <<workerCred, feeder>>
    /\ UNCHANGED concVars

\* submit_form.submit(ajax_args): kwargs are ajax_args when true, else
\* self._get_args(), which needs the cleaned data of a bound, valid form (the
\* AJAX form is unbound: AttributeError); then _pre_submit(), Job.submit(**kwargs),
\* _post_submit(jobs).  An exception of Job.submit is returned, not raised; either
\* way the worker enqueues it.
W_submit ==
    /\ workerPc = "submit"
    /\ IF ~Truthy(ajax_args(req)) /\ ~(req.method = "POST" /\ req.formValid)
       THEN /\ workerExc' = Exc("AttributeError", "cleaned_data")
            /\ workerPc' = "except"
            /\ UNCHANGED <<workerRet, schedLog>>
       ELSE /\ schedLog' = Append(schedLog, Call("worker", "mutate", workerEuid))
            /\ \/ /\ workerRet' = WorkerResult(op, req)
                  /\ workerPc' = "put"
                  /\ UNCHANGED workerExc
               \/ \E e \in CallFailures(op) :
                     /\ workerExc' = e
                     /\ workerPc' = "except"
                     /\ UNCHANGED workerRet
    /\ UNCHANGED <<op, req, parentPc, parentEuid, workerEuid, channel, rc, response,
                   nSpawn, nPut, nGet>>
    /\ UNCHANGED target
    /\ UNCHANGED modelVars
    /\ UNCHANGED <<workerCred, feeder>>
    /\ UNCHANGED concVars

\* queue.put(<response>); execute_get_output_path: if path: queue.put(path)
W_put ==
    /\ workerPc = "put"
    /\ IF workerRet.t = "path" /\ workerRet.v = ""
       THEN UNCHANGED <<channel, nPut>>
       ELSE /\ channel' = Append(channel, workerRet)
            /\ nPut' = nPut + 1
    /\ workerPc' = "exit"
    /\ UNCHANGED <<op, req, parentPc, parentEuid, workerEuid, workerExc, workerRet,
                   rc, response, schedLog, nSpawn, nGet>>
    /\ UNCHANGED target
    /\ UNCHANGED modelVars
    /\ IF workerRet.t = "path" /\ workerRet.v = ""
       THEN UNCHANGED feeder
       ELSE \E size \in MessageSizes(workerRet) : feeder' = Feeder(size)
    /\ UNCHANGED workerCred
    /\ UNCHANGED concVars

\* A worker that answers a caught exception with its success response.
W_except_reporting_success ==
    /\ workerPc = "except"
    /\ channel' = Append(channel, IF op \in MutatingOps
                                  THEN WorkerResult(op, req)
                                  ELSE workerExc)
    /\ nPut' = nPut + 1
    /\ workerPc' = "exit"
    /\ UNCHANGED <<op, req, parentPc, parentEuid, workerEuid, workerExc, workerRet,
                   rc, response, schedLog, nSpawn, nGet>>
    /\ UNCHANGED target
    /\ UNCHANGED modelVars
    /\ \E size \in MessageSizes(workerExc) : feeder' = Feeder(size)
    /\ UNCHANGED workerCred
    /\ UNCHANGED concVars

\* except Exception as e: queue.put(e)
W_except ==
    /\ workerPc = "except"
    /\ channel' = Append(channel, workerExc)
    /\ nPut' = nPut + 1
    /\ workerPc' = "exit"
    /\ UNCHANGED <<op, req, parentPc, parentEuid, workerEuid, workerExc, workerRet,
                   rc, response, schedLog, nSpawn, nGet>>
    /\ UNCHANGED target
    /\ UNCHANGED modelVars
    /\ \E size \in MessageSizes(workerExc) : feeder' = Feeder(size)
    /\ UNCHANGED workerCred
    /\ UNCHANGED concVars

\* The target function returns and the process exits; before it exits it joins
\* the feeder thread of the queue it has put on, which has to write the
\* message to the pipe first.
W_exit ==
    /\ workerPc = "exit"
    /\ feeder # "blocked"
    /\ workerPc' = "exited"
    /\ UNCHANGED <<op, req, parentPc, parentEuid, workerEuid, workerExc, workerRet,
                   channel, rc, response, schedLog, nSpawn, nPut, nGet>>
    /\ UNCHANGED target
    /\ UNCHANGED modelVars
    /\ UNCHANGED <<workerCred, feeder>>
    /\ UNCHANGED concVars

\* The positions of a worker that has put nothing on the queue yet.
RunningPcs == {"getpwnam", "setuid", "resolve", "call", "submit", "put", "except"}

\* The worker process dies (a signal, a fault in the scheduler library) before
\* it has put anything on the queue.
W_crash ==
    /\ workerPc \in RunningPcs
    /\ workerPc' = "killed"
    /\ UNCHANGED <<op, req, parentPc, parentEuid, workerEuid, workerExc, workerRet,
                   channel, rc, response, schedLog, nSpawn, nPut, nGet>>
    /\ UNCHANGED target
    /\ UNCHANGED modelVars
    /\ UNCHANGED <<workerCred, feeder>>
    /\ UNCHANGED concVars

\* A scheduler call of the worker never returns (the scheduler does not answer).
W_hang ==
    /\ workerPc \in {"resolve", "call", "submit"}
    /\ workerPc' = "hung"
    /\ UNCHANGED <<op, req, parentPc, parentEuid, workerEuid, workerExc, workerRet,
                   channel, rc, response, schedLog, nSpawn, nPut, nGet>>
    /\ UNCHANGED target
    /\ UNCHANGED modelVars
    /\ UNCHANGED <<workerCred, feeder>>
    /\ UNCHANGED concVars

(***************************************************************************)
(* Specifications                                                          *)
(***************************************************************************)
ParentStep ==
    \/ LoginRedirect
    \/ ConfirmPage
    \/ SubmitForm
    \/ JobView
    \/ QueueView
    \/ Spawn
    \/ Join
    \/ GetNoWait
    \/ GetPath
    \/ GetBlocking
    \/ Respond
    \/ RespondPath

WorkerStep ==
    \/ W_getpwnam
    \/ W_setuid
    \/ W_resolve
    \/ W_mutate
    \/ W_get_output_path
    \/ W_submit
    \/ W_put
    \/ W_except
    \/ W_exit

Next ==
    \/ Request
    \/ ParentStep
    \/ WorkerStep
    \/ W_crash
    \/ W_hang
    \/ Finish

Spec == Init /\ [][Next]_vars

(***************************************************************************)
(* Properties                                                              *)
(***************************************************************************)
\* The scheduler calls the worker of this request has made.
WorkerCalls == SelectSeq(schedLog, LAMBDA c : c.proc = "worker")

\* The mutating calls the worker of this request has made.
Mutations == SelectSeq(schedLog, LAMBDA c : c.proc = "worker" /\ c.call = "mutate")

\* A handled failure of exception e: the FAIL envelope or the exception page.
IsHandledFailure(x) ==
    /\ x.t = "resp"
    /\ \/ x.kind = "json" /\ x.body.status = "FAIL" /\ x.body.data.t = "dict"
       \/ x.kind = "html" /\ x.template = "exception"

\* The exception class a handled failure reports.
ReportedClass(x) ==
    IF x.kind = "json" THEN x.body.data.exception_class ELSE x.exception.cls

\* The worker's identity lookup or identity drop failed.
IdentityFailed == IsException(workerExc) /\ workerExc.cls \in {"KeyError", "OSError"}

\* C1: every scheduler call of a worker (resolution, mutation, read) is made
\* under the requesting user's identity, that is after os.setuid succeeded; a
\* worker whose identity lookup or drop failed has made no scheduler call, and
\* a worker still under the serving identity has made none either.
C1_NoSchedulerCallBeforeDrop ==
    /\ \A i \in 1..Len(WorkerCalls) :
          /\ WorkerCalls[i].euid = req.user
          /\ WorkerCalls[i].euid # ServerIdentity
          /\ req.user \in OSAccounts
    /\ IdentityFailed => WorkerCalls = <<>>
    /\ workerEuid = ServerIdentity => WorkerCalls = <<>>

\* C1 witness: a worker that dropped to alice has made its mutating call.
C1_Witness ==
    /\ workerEuid = "alice"
    /\ Len(Mutations) = 1
    /\ Mutations[1].euid = "alice"

\* C2: when the view function has answered and its worker ran to its exit, the
\* worker has enqueued exactly one message and the parent dequeued exactly one.
C2_ExactlyOneMessage ==
    (parentPc = "done" /\ nSpawn = 1 /\ workerPc = "exited") => (nPut = 1 /\ nGet = 1)

\* C3: when the worker of a mutating operation died without enqueuing, the
\* caller gets a handled failure that reports ClusterInterfaceError.
C3_CrashReportedAsInterfaceError ==
    (parentPc = "done" /\ op \in MutatingOps /\ workerPc = "killed" /\ nPut = 0)
        => (IsHandledFailure(response) /\ ReportedClass(response) = "ClusterInterfaceError")

\* C4: a parent waiting for its worker is never stuck: while it waits in
\* p.join() or q.get(), some step of the parent (a timeout among them) or of
\* the worker is possible.
C4_WaitIsBounded ==
    parentPc \in {"join", "get"} => ENABLED (ParentStep \/ WorkerStep)

\* C5: when the acting identity has no OS account, the failure the caller
\* observes reports PermissionDeniedError.
C5_NoAccountIsPermissionDenied ==
    (parentPc = "done" /\ nSpawn = 1 /\ workerPc = "exited" /\ req.user \notin OSAccounts)
        => (IsHandledFailure(response) /\ ReportedClass(response) = "PermissionDeniedError")

\* C6 as stated: when the acting identity has no OS account, no worker is
\* ever started for the invocation.
C6_NoWorkerWithoutAccount ==
    (op # "none" /\ req.user \notin OSAccounts) => nSpawn = 0

\* C6 as amended: when the acting identity has no OS account the executor
\* still spawns its one worker; the lookup fails inside the worker, which never
\* reaches the identity drop, keeps the identity it was started with and makes
\* no scheduler call.
C6_LookupFailsInsideWorker ==
    (parentPc \in {"join", "get", "respond", "done"} /\ nSpawn = 1 /\ req.user \notin OSAccounts)
        => /\ workerPc \in {"getpwnam", "except", "exit", "exited", "killed"}
           /\ workerEuid = ServerIdentity
           /\ WorkerCalls = <<>>
           /\ workerPc \in {"except", "exit", "exited"} => workerExc = Exc("KeyError", "getpwnam(): name not found")

\* C6 witness: bob has no account; his kill request spawned a worker, whose
\* lookup failed, and the view function has answered.
C6_Witness ==
    /\ parentPc = "done"
    /\ op = "job_kill"
    /\ req.user = "bob"
    /\ nSpawn = 1
    /\ workerPc = "exited"
    /\ IsException(workerExc) /\ workerExc.cls = "KeyError"

\* The failures that precede the mutating call: identity lookup, identity
\* drop, entity resolution, and the arguments of a submission.
FailedBeforeCall ==
    /\ IsException(workerExc)
    /\ \/ workerExc.cls \in {"KeyError", "OSError", "AttributeError"}
       \/ workerExc \in ResolveFailures(op)

\* C7: an invocation of a mutating operation makes at most one mutating
\* scheduler call: exactly one once the worker's call has returned (and when
\* the caller is given the worker's success response), none when a failure
\* occurred before the call, and none when no worker was spawned.
C7_OneMutationPerInvocation ==
    /\ Len(Mutations) <= 1
    /\ (op \in MutatingOps /\ workerRet # Null) => Len(Mutations) = 1
    /\ (op \in MutatingOps /\ parentPc = "done" /\ nSpawn = 1 /\ response = WorkerResult(op, req))
          => Len(Mutations) = 1
    /\ FailedBeforeCall => Len(Mutations) = 0
    /\ nSpawn = 0 => Len(Mutations) = 0

\* C7 witness: a requeue answered with the worker's success response after
\* one mutating call.
C7_Witness ==
    /\ parentPc = "done"
    /\ op = "job_requeue"
    /\ response = WorkerResult(op, req)
    /\ Len(Mutations) = 1

\* C8: a successful AJAX kill by a caller with an OS account answers
\* {"status": "OK", "data": null, "message": "Job Killed"}.
C8_KillEnvelope ==
    (parentPc = "done" /\ op = "job_kill" /\ req.ajax /\ req.user \in OSAccounts
        /\ workerRet # Null /\ rc = workerRet)
        => /\ response.t = "resp"
           /\ response.kind = "json"
           /\ response.body = [status |-> "OK", data |-> Null, message |-> "Job Killed"]

\* The parent received a not-found failure raised by the worker's resolution.
ReceivedNotFound ==
    /\ parentPc = "done"
    /\ nSpawn = 1
    /\ IsException(rc)
    /\ rc = workerExc
    /\ rc \in ResolveFailures(op)
    /\ rc.cls \in NotFoundClasses

\* C9: when the worker's resolution of the target failed with a not-found
\* kind K and message m and the failure reached the parent, an AJAX caller
\* receives the envelope {status "FAIL", data {exception_class K, message m},
\* message m}, and no mutating call was made.
C9_NotFoundEnvelope ==
    (ReceivedNotFound /\ req.ajax)
        => /\ response.t = "resp"
           /\ response.kind = "json"
           /\ response.body =
                 [status |-> "FAIL",
                  data |-> [t |-> "dict", exception_class |-> rc.cls, message |-> rc.message],
                  message |-> rc.message]
           /\ Len(Mutations) = 0

\* C9 witness: an AJAX kill whose job was not found has been answered.
C9_Witness ==
    /\ ReceivedNotFound
    /\ req.ajax
    /\ op = "job_kill"
    /\ rc = Exc("NoSuchJobError", "Job not found")
    /\ response.t = "resp"

\* C10: whatever exception the channel yielded, taxonomy value or not, the
\* caller gets a handled failure that reports its class.
C10_EveryFailureHandled ==
    (parentPc = "done" /\ nSpawn = 1 /\ IsException(rc))
        => (IsHandledFailure(response) /\ ReportedClass(response) = rc.cls)

\* C11: every message on the channel is a success payload (a response, an
\* output path) or a value of the exception taxonomy.
C11_OnlyTaxonomyOnChannel ==
    \A i \in 1..Len(channel) :
        channel[i].t \in {"resp", "path"} \/ IsClusterException(channel[i])

\* The request ended in a failure: an exception left the view function, an
\* exception object was returned, or a failure response was given.
EndedInFailure ==
    /\ parentPc = "done"
    /\ \/ response.t \in {"fault", "exc"}
       \/ IsHandledFailure(response)

\* C12: every caller-facing operation that ends in a failure answers with the
\* "FAIL" envelope, carrying a message and the exception class.
C12_EveryFailureIsFailEnvelope ==
    EndedInFailure
        => /\ response.t = "resp"
           /\ response.kind = "json"
           /\ response.body.status = "FAIL"
           /\ response.body.data.t = "dict"

\* The parent has joined its worker.
ParentJoined ==
    /\ nSpawn = 1
    /\ \/ op = "job_submit" /\ parentPc \in {"respond", "done"}
       \/ op # "job_submit" /\ parentPc \in {"get", "respond", "done"}

\* C19: the parent joins the worker only after it has taken the worker's
\* message from the channel.
C19_MessageTakenBeforeJoin ==
    (ParentJoined /\ nPut = 1) => nGet = 1

\* The request goes on to the privilege-separated worker.
GoesToWorker ==
    /\ is_authenticated(req)
    /\ \/ op \in QueueOps \cup HostOps \cup JobOps /\ Confirmed(req)
       \/ op = "job_submit" /\ SubmitProceeds(req)

\* C20: a mutating request that goes to the executor spawns exactly one
\* worker; the worker does not exist before the request and has ended when the
\* request is answered; no second worker is spawned, also after a failure.
C20_OneWorkerPerRequest ==
    /\ nSpawn <= 1
    /\ (op \in MutatingOps /\ GoesToWorker /\ parentPc \in {"join", "get", "respond", "done"})
          => nSpawn = 1
    /\ parentPc \in {"idle", "dispatch"} => (workerPc = "none" /\ nSpawn = 0)
    /\ (parentPc = "done" /\ nSpawn = 1) => workerPc \in {"exited", "killed"}

\* C20 witness: a requeue whose worker reported a failure has been answered,
\* with one worker spawned.
C20_Witness ==
    /\ parentPc = "done"
    /\ op = "job_requeue"
    /\ IsException(rc)
    /\ nSpawn = 1

\* C21: the object a worker has invoked its mutating call on was constructed
\* in the worker, under the caller's identity (after the drop); nothing the
\* parent constructed is the receiver of the call.
C21_TargetBuiltInWorkerAfterDrop ==
    Len(Mutations) > 0
        => /\ target.proc = "worker"
           /\ target.euid = req.user

\* C28: a failure answered with the FAIL envelope is answered in the response
\* category its kind's http_response names: not-found kinds with a not-found
\* response, PermissionDeniedError with a forbidden response.
C28_ResponseCategoryFollowsHint ==
    (parentPc = "done" /\ response.t = "resp" /\ response.kind = "json"
        /\ response.body.status = "FAIL")
        => LET hint == http_response(response.body.data.exception_class)
           IN  hint # "None" => response.http = hint

\* A request of a logged-in caller to an endpoint with a confirmation screen
\* that is not AJAX and carries neither the confirm nor the json flag.
Unconfirmed ==
    /\ op \in QueueOps \cup HostOps \cup JobOps
    /\ is_authenticated(req)
    /\ ~req.ajax
    /\ ~req.confirm
    /\ ~req.json

\* C29 (as stated): an unconfirmed request is answered with the confirmation
\* screen, no worker is spawned and no mutating call is made.
C29_AnsweredWithConfirmation ==
    (Unconfirmed /\ parentPc = "done")
        => /\ response = render("confirm")
           /\ nSpawn = 0
           /\ Len(Mutations) = 0

\* C29 (amended): an unconfirmed request never spawns a worker and never makes
\* a mutating call; it is answered with the confirmation screen, or, when the
\* target cannot be constructed, with the failure of the lookup.
C29_NoWorkerWithoutConfirmation ==
    /\ Unconfirmed
          => /\ nSpawn = 0
             /\ workerPc = "none"
             /\ \A i \in 1..Len(schedLog) : schedLog[i].call # "mutate"
    /\ (Unconfirmed /\ parentPc = "done")
          => \/ response = render("confirm")
             \/ /\ response.t = "fault"
                /\ response.exception \in ResolveFailures(op)

\* C29 witness: an unconfirmed queue_close was answered with the confirmation
\* screen after the serving process had looked the queue up.
C29_Witness ==
    /\ Unconfirmed
    /\ op = "queue_close"
    /\ parentPc = "done"
    /\ response = render("confirm")
    /\ schedLog = <<Call("parent", "resolve", ServerIdentity)>>
    /\ nSpawn = 0

\* The caller of a mutating operation was given a success result.
GivenSuccess ==
    /\ parentPc = "done"
    /\ op \in MutatingOps
    /\ nSpawn = 1
    /\ response.t = "resp"
    /\ \/ response.kind = "redirect"
       \/ response.kind = "json" /\ response.body.status = "OK"

\* C30: a success result is given only after the worker dropped to the
\* caller's identity, then resolved the target, then made the mutating call,
\* and none of them failed.
C30_SuccessOnlyAfterDropResolveCall ==
    GivenSuccess
        => /\ workerExc = Null
           /\ req.user \in OSAccounts
           /\ workerEuid = req.user
           /\ WorkerCalls =
                 IF op = "job_submit"
                 THEN <<Call("worker", "mutate", req.user)>>
                 ELSE <<Call("worker", "resolve", req.user),
                        Call("worker", "mutate", req.user)>>
           /\ op # "job_submit" => target = Constructed("entity", "worker", req.user)

\* C30 witness: a queue_open was answered with the worker's success response.
C30_Witness ==
    /\ GivenSuccess
    /\ op = "queue_open"
    /\ response = WorkerResult(op, req)
    /\ Len(Mutations) = 1

\* C31: a failure value received from the worker is never handed back to the
\* caller as the view's result: a finished request whose received message is an
\* exception is not answered with that exception object itself.
C31_FailureNeverReturnedAsResult ==
    (parentPc = "done" /\ IsException(rc)) => response # rc

\* C37: a request that carries the json flag gets a JSON envelope as the
\* result of a mutating operation, on success as on failure: every response
\* that ends such a request after its worker ran is of the JSON kind.
C37_JsonFlagGivesEnvelope ==
    (parentPc = "done" /\ op \in MutatingOps /\ req.json /\ nSpawn = 1
        /\ response.t = "resp")
        => response.kind = "json"

\* C38: a finished job_error or job_output request is answered "Not Available"
\* whenever its worker enqueued nothing or the derived file is not on disk, a
\* path whose derived file exists is served, and a failure value received from
\* the worker is raised: it ends as a handled failure or leaves the view, and
\* is never answered "Not Available" or with a file.
C38_NotAvailableOrReRaised ==
    (parentPc = "done" /\ op \in OutputOps) =>
        /\ nPut = 0 => response = NotAvailable
        /\ (rc.t = "path" /\ ~os_path_exists(DerivedPath(op, rc.v)))
              => response = NotAvailable
        /\ (rc.t = "path" /\ os_path_exists(DerivedPath(op, rc.v)))
              => (response.kind = "file" /\ response.path = DerivedPath(op, rc.v))
        /\ IsException(rc) =>
              \/ response = Fault(rc)
              \/ IsClusterException(rc) /\ response = except_ClusterException(req, rc)

\* C38 witness: the worker of a job_error found no path, exited without
\* enqueuing anything, and the request was answered "Not Available".
C38_Witness ==
    /\ parentPc = "done"
    /\ op = "job_error"
    /\ workerPc = "exited"
    /\ workerRet = [t |-> "path", v |-> ""]
    /\ nPut = 0
    /\ response = NotAvailable

\* C36: a privilege-separated worker is spawned only for an authenticated
\* caller: whenever the request at hand has spawned its worker, the caller of
\* the request is logged in.
C36_WorkerOnlyForAuthenticated ==
    nSpawn > 0 => is_authenticated(req)

\* C32: parent and worker never deadlock: in no reachable state is the worker
\* blocked delivering its message (the pipe under the channel is full) while
\* the parent is blocked in p.join() waiting for the worker to exit.
C32_NoDeadlock ==
    ~(workerPc = "exit" /\ feeder = "blocked" /\ parentPc = "join")

\* C35: once the identity drop has been made, while the worker runs scheduler
\* calls or the submission hooks, no component of the worker's OS identity
\* (user id, group id, supplementary groups) is that of the serving process.
C35_NoServerIdentityAfterDrop ==
    workerPc \in {"resolve", "call", "submit"}
        => /\ workerEuid # ServerIdentity
           /\ workerCred.gid # ServerCred.gid
           /\ workerCred.groups \cap ServerCred.groups = {}

-----------------------------------------------------------------------------
\* Concurrent invocations of the executor: the serving layer runs several view
\* functions at once, each in its own thread of the serving process.

\* Everything but the serving process's identity and the invocations' frames.
restVars ==
    <<op, req, parentPc, workerPc, workerEuid, workerExc, workerRet, channel, rc,
      response, schedLog, nSpawn, nPut, nGet, target, workerCred, feeder, obj, doc>>

\* The MPQueue objects referenced by the frame of a running view function.
LiveQueues(s) == {s[i].q : i \in {j \in Slots : s[j].pc # "idle"}}

\* A queue object shared by all invocations (a module-level q).
MPQueue_shared(s) == 1

\* q = MPQueue(): a new object, distinct from every queue still referenced.
MPQueue(s) == CHOOSE k \in Slots : k \notin LiveQueues(s)

\* The endpoints of the two orders: job_kill joins and then takes the message,
\* job_submit takes the message and then joins.
ConcurrentOps == {"job_kill", "job_submit"}

\* No invocation is in progress.
ConcInit == Init

\* q = MPQueue(); p = MPProcess(target=..., kwargs={..., 'queue': q}); p.start()
\* The worker is forked from the serving process and starts with its identity.
StartInvocation(i) ==
    /\ slot[i].pc = "idle"
    /\ \E o \in ConcurrentOps : \E u \in Users :
          LET k == MPQueue(slot)
          IN  /\ slot' = [slot EXCEPT ![i] =
                            [pc |-> IF o = "job_submit" THEN "get" ELSE "join",
                             op |-> o, user |-> u, q |-> k, wpc |-> "getpwnam",
                             weuid |-> parentEuid, rc |-> Null]]
              /\ mpq' = [mpq EXCEPT ![k] = <<>>]
    /\ UNCHANGED parentEuid
    /\ UNCHANGED restVars

\* An identity drop made in the serving process itself (a worker thread).
WorkerSetuid_in_parent(i) ==
    /\ slot[i].wpc = "getpwnam"
    /\ IF slot[i].user \in OSAccounts
       THEN /\ slot' = [slot EXCEPT ![i].wpc = "call"]
            /\ parentEuid' = slot[i].user
       ELSE /\ slot' = [slot EXCEPT ![i].wpc = "except"]
            /\ UNCHANGED parentEuid
    /\ UNCHANGED mpq
    /\ UNCHANGED restVars

\* user_id = pwd.getpwnam(request.user.username).pw_uid; os.setuid(user_id)
\* in the worker process: its own identity changes, no other process's.
WorkerSetuid(i) ==
    /\ slot[i].wpc = "getpwnam"
    /\ IF slot[i].user \in OSAccounts
       THEN slot' = [slot EXCEPT ![i].wpc = "call", ![i].weuid = slot[i].user]
       ELSE slot' = [slot EXCEPT ![i].wpc = "except"]
    /\ UNCHANGED <<parentEuid, mpq>>
    /\ UNCHANGED restVars

\* queue.put(response) after the scheduler call, queue.put(e) in the except
\* clause: on the queue object the worker was given in its kwargs.
WorkerPut(i) ==
    /\ slot[i].wpc \in {"call", "except"}
    /\ mpq' = [mpq EXCEPT ![slot[i].q] =
                  Append(@, [t |-> "msg", from |-> i,
                             body |-> IF slot[i].wpc = "call"
                                      THEN "response" ELSE "exception"])]
    /\ slot' = [slot EXCEPT ![i].wpc = "exited"]
    /\ UNCHANGED parentEuid
    /\ UNCHANGED restVars

\* p.join()
ParentJoin(i) ==
    /\ slot[i].pc = "join"
    /\ slot[i].wpc = "exited"
    /\ slot' = [slot EXCEPT ![i].pc = IF slot[i].op = "job_submit"
                                      THEN "done" ELSE "get"]
    /\ UNCHANGED <<parentEuid, mpq>>
    /\ UNCHANGED restVars

\* rc = q.get(False) (job_kill, after the join: Empty is raised on an empty
\* queue); rc = q.get(True) (job_submit, before the join: waits for a message).
ParentGet(i) ==
    /\ slot[i].pc = "get"
    /\ IF mpq[slot[i].q] = <<>>
       THEN /\ slot[i].op = "job_kill"
            /\ slot' = [slot EXCEPT ![i].rc = Exc("Empty", ""), ![i].pc = "done"]
            /\ UNCHANGED mpq
       ELSE /\ slot' = [slot EXCEPT ![i].rc = Head(mpq[slot[i].q]),
                                    ![i].pc = IF slot[i].op = "job_submit"
                                              THEN "join" ELSE "done"]
            /\ mpq' = [mpq EXCEPT ![slot[i].q] = Tail(@)]
    /\ UNCHANGED parentEuid
    /\ UNCHANGED restVars

\* The view function returns: its frame, queue and worker are dropped.
Return(i) ==
    /\ slot[i].pc = "done"
    /\ slot' = [slot EXCEPT ![i] = NoSlot]
    /\ mpq' = [mpq EXCEPT ![slot[i].q] =
                  IF \E j \in Slots \ {i} : slot[j].pc # "idle" /\ slot[j].q = slot[i].q
                  THEN @ ELSE <<>>]
    /\ UNCHANGED parentEuid
    /\ UNCHANGED restVars

ConcNext ==
    \E i \in Slots :
        \/ StartInvocation(i)
        \/ WorkerSetuid(i)
        \/ WorkerPut(i)
        \/ ParentJoin(i)
        \/ ParentGet(i)
        \/ Return(i)

ConcSpec == ConcInit /\ [][ConcNext]_vars

\* C33: across concurrent invocations the identity of the serving process is
\* never changed, and the drop takes effect only in the worker of its own
\* invocation: a worker that has not dropped yet still has the server's
\* identity, whatever the other workers did, and one that has dropped has the
\* identity of its own request's user.
C33_ParentIdentityUnchanged ==
    /\ parentEuid = ServerIdentity
    /\ \A i \in Slots :
          /\ slot[i].wpc = "getpwnam" => slot[i].weuid = ServerIdentity
          /\ slot[i].wpc = "call" => slot[i].weuid = slot[i].user

\* C33 witness: one worker has dropped to its user while the worker of a
\* concurrent invocation has just been forked from the serving process.
C33_Witness ==
    /\ slot[1].wpc = "call"
    /\ slot[1].weuid = "alice"
    /\ slot[2].wpc = "getpwnam"
    /\ slot[2].weuid = ServerIdentity
    /\ parentEuid = ServerIdentity

\* C34: with concurrent invocations each parent receives only the message of
\* its own worker: the invocations in progress hold distinct queues, every
\* message on a queue was put by the worker of the invocation holding it, and
\* what a parent has taken came from its own worker.
C34_OwnMessageOnly ==
    /\ \A i, j \in Slots :
          (i # j /\ slot[i].pc # "idle" /\ slot[j].pc # "idle")
              => slot[i].q # slot[j].q
    /\ \A i \in Slots :
          /\ slot[i].pc # "idle"
                => \A n \in 1..Len(mpq[slot[i].q]) : mpq[slot[i].q][n].from = i
          /\ slot[i].rc.t = "msg" => slot[i].rc.from = i
          /\ slot[i].pc = "done" => slot[i].rc.t = "msg"

\* C34 witness: both invocations are answered at the same time, each parent
\* holding its own worker's message.
C34_Witness ==
    /\ slot[1].pc = "done" /\ slot[1].rc.t = "msg" /\ slot[1].rc.from = 1
    /\ slot[2].pc = "done" /\ slot[2].rc.t = "msg" /\ slot[2].rc.from = 2
    /\ slot[1].op = "job_kill" /\ slot[2].op = "job_submit"

-----------------------------------------------------------------------------
\* Resource model and projection encoder.

\* Nesting budget of the encoder's recursion (json.dumps recursing through
\* containers and default()).
MaxNesting == 6

Range(s) == {s[i] : i \in 1..Len(s)}

\* Python values handed to the encoder.
PyScalar(v) == [k |-> "scalar", v |-> v]
PyObject(id) == [k |-> "object", id |-> id]
PyList(items) == [k |-> "list", items |-> items]
PyCallable(ret) == [k |-> "callable", ret |-> ret]
PyTimedelta(secs) == [k |-> "timedelta", seconds |-> secs]
PyDict(d) == [k |-> "dict", d |-> d]
PyRaise(cls) == [k |-> "raise", cls |-> cls]

\* The objects of one cluster snapshot and their classes.
Objects ==
    {"job1", "job2", "queue", "host", "exechost", "user", "proc", "consumed",
     "limit", "status", "option"}

Class(id) ==
    CASE id \in {"job1", "job2"} -> "Job"
      [] id = "queue" -> "Queue"
      [] id = "host" -> "Host"
      [] id = "exechost" -> "ExecutionHost"
      [] id = "user" -> "User"
      [] id = "proc" -> "Process"
      [] id = "consumed" -> "ConsumedResource"
      [] id = "limit" -> "ResourceLimit"
      [] id = "status" -> "JobStatus"
      [] id = "option" -> "SubmitOption"

\* Classes whose accessors the scheduler backend implements (or leaves raising
\* NotImplementedError); the other classes hold plain instance attributes.
BackendClasses == {"Job", "Queue", "Host", "ExecutionHost", "User"}

\* Classes ClusterEncoder.check replaces by a stub.
StubClasses == {"ExecutionHost", "Host", "Job", "Queue"}

JobBase_json_attributes ==
    <<"queue", "submission_host", "execution_hosts", "requested_hosts",
      "cluster_type", "admins", "job_id", "array_index", "begin_time", "command",
      "consumed_resources", "cpu_time", "dependency_condition", "email_user",
      "end_time", "error_file_name", "input_file_name", "max_requested_slots",
      "name", "options", "output_file_name", "pending_reasons",
      "predicted_start_time", "priority", "process_id", "processes",
      "project_names", "requested_resources", "requested_slots",
      "reservation_time", "runtime_limits", "start_time", "status", "submit_time",
      "suspension_reasons", "termination_time", "user_name", "user_priority",
      "is_pending", "is_running", "is_suspended", "is_failed", "was_killed",
      "is_completed">>

HostBase_json_attributes ==
    <<"admins", "name", "host_name", "description", "has_checkpoint_support",
      "host_model", "host_type", "resources", "is_busy", "is_closed", "is_down",
      "max_jobs", "max_processors", "max_ram", "max_slots", "max_swap", "max_tmp",
      "num_reserved_slots", "num_running_jobs", "num_running_slots",
      "num_suspended_jobs", "num_suspended_slots", "statuses", "total_jobs",
      "total_slots", "jobs", "load_information", "cluster_type">>

UserBase_json_attributes ==
    <<"cluster_type", "name", "max_jobs_per_processor", "max_slots",
      "total_slots", "num_running_slots", "num_pending_slots",
      "num_suspended_slots", "num_reserved_slots", "max_jobs", "total_jobs",
      "num_running_jobs", "num_pending_jobs", "num_suspended_jobs", "jobs">>

QueueBase_json_attributes ==
    <<"name", "description", "priority", "max_jobs_per_user",
      "max_slots_per_user", "max_jobs_per_processor", "max_slots_per_processor",
      "allowed_users", "allowed_hosts", "runtime_limits", "host_specification",
      "attributes", "statuses", "max_slots", "total_slots", "num_running_slots",
      "num_pending_slots", "num_suspended_slots", "num_reserved_slots",
      "max_jobs", "total_jobs", "num_running_jobs", "num_pending_jobs",
      "num_suspended_jobs", "admins", "dispatch_windows", "max_slots_per_job",
      "max_jobs_per_host", "max_slots_per_host", "resource_requirements",
      "min_slots_per_job", "default_slots_per_job", "checkpoint_data_directory",
      "checkpoint_period", "is_accepting_jobs", "is_dispatching_jobs", "jobs",
      "cluster_type">>

\* Process(hostname, process_id, **kwargs): the keyword names become extras.
Process_extras == <<"state">>

Process_json_attributes == <<"hostname", "process_id">> \o Process_extras

ResourceLimit_json_attributes ==
    <<"name", "soft_limit", "hard_limit", "description", "unit">>

ConsumedResource_json_attributes == <<"name", "value", "limit", "unit">>

\* JobStatus and SubmitOption as the documented responses show them.
Status_json_attributes == <<"name", "description", "status", "friendly">>

\* obj.json_attributes()
json_attributes(id) ==
    CASE Class(id) = "Job" -> JobBase_json_attributes
      [] Class(id) \in {"Host", "ExecutionHost"} -> HostBase_json_attributes
      [] Class(id) = "User" -> UserBase_json_attributes
      [] Class(id) = "Queue" -> QueueBase_json_attributes
      [] Class(id) = "Process" -> Process_json_attributes
      [] Class(id) = "ResourceLimit" -> ResourceLimit_json_attributes
      [] Class(id) = "ConsumedResource" -> ConsumedResource_json_attributes
      [] Class(id) \in {"JobStatus", "SubmitOption"} -> Status_json_attributes

\* The attribute values of the snapshot: a job in a queue that lists the job
\* again, hosts that list their jobs, and the value objects a job carries.
JobsOf(id) ==
    CASE id = "queue" -> <<PyObject("job1"), PyObject("job2")>>
      [] id \in {"host", "exechost"} -> <<PyObject("job1")>>
      [] id = "user" -> <<PyObject("job2")>>

\* The status-derived booleans of the documented job, whose status is
\* JOB_STAT_PSUSP (suspended while pending).
DocumentedFlags ==
    [is_completed |-> FALSE, is_failed |-> FALSE, is_pending |-> FALSE,
     is_running |-> FALSE, is_suspended |-> TRUE, was_killed |-> FALSE]

Attr(id, name) ==
    CASE Class(id) = "Job" /\ name = "queue" -> PyObject("queue")
      [] Class(id) = "Job" /\ name \in DOMAIN DocumentedFlags
            -> PyScalar(DocumentedFlags[name])
      [] Class(id) = "JobStatus" /\ name = "name" -> PyScalar("JOB_STAT_PSUSP")
      [] Class(id) = "Job" /\ name = "submission_host" -> PyObject("host")
      [] Class(id) = "Job" /\ name = "execution_hosts" -> PyList(<<PyObject("exechost")>>)
      [] Class(id) = "Job" /\ name = "requested_hosts" -> PyList(<<PyObject("host")>>)
      [] Class(id) = "Job" /\ name = "consumed_resources" -> PyList(<<PyObject("consumed")>>)
      [] Class(id) = "Job" /\ name = "processes" -> PyList(<<PyObject("proc")>>)
      [] Class(id) = "Job" /\ name = "runtime_limits" -> PyList(<<PyObject("limit")>>)
      [] Class(id) = "Job" /\ name = "options" -> PyList(<<PyObject("option")>>)
      [] Class(id) = "Job" /\ name = "status" -> PyObject("status")
      [] Class(id) = "Queue" /\ name = "runtime_limits" -> PyList(<<PyObject("limit")>>)
      [] Class(id) \in {"Queue", "Host", "ExecutionHost", "User"} /\ name = "jobs"
            -> PyCallable(PyList(JobsOf(id)))
      [] Class(id) \in {"Host", "ExecutionHost"} /\ name = "load_information"
            -> PyCallable(PyList(<<>>))
      [] name \in {"admins", "project_names", "allowed_users", "allowed_hosts", "statuses"}
            -> PyList(<<PyScalar("s")>>)
      [] OTHER -> PyScalar(<<id, name>>)

\* getattr(obj, name) against a backend that leaves the accessors named in
\* unimplemented raising NotImplementedError (a method raises when called).
getattr(id, name, unimplemented) ==
    IF Class(id) \in BackendClasses /\ name \in unimplemented
    THEN IF Attr(id, name).k = "callable"
         THEN PyCallable(PyRaise("NotImplementedError"))
         ELSE PyRaise("NotImplementedError")
    ELSE Attr(id, name)

\* reverse(view, args=[...])
reverse(view, args) ==
    IF \E i \in 1..Len(args) : args[i].k = "raise"
    THEN PyRaise("NotImplementedError")
    ELSE PyScalar(<<view, args>>)

\* A dict display: evaluating it raises what one of its value expressions raises.
MkDict(fields) ==
    IF \E n \in DOMAIN fields : fields[n].k = "raise"
    THEN PyRaise("NotImplementedError")
    ELSE PyDict(fields)

\* A list comprehension: raises what one of its elements raises.
MkList(items) ==
    IF \E i \in 1..Len(items) : items[i].k = "raise"
    THEN PyRaise("NotImplementedError")
    ELSE PyList(items)

\* A check that returns every object as it is.
check_identity(v, unimplemented) == v

\* A check without the Job branch.
check_without_job(v, unimplemented) ==
    IF v.k = "object" /\ Class(v.id) \in StubClasses \ {"Job"}
    THEN MkDict([n \in {"type", "name", "url"} |->
                    CASE n = "type" -> PyScalar(Class(v.id))
                      [] n = "name" -> getattr(v.id, "name", unimplemented)
                      [] n = "url" -> reverse("olw_view", <<getattr(v.id, "name", unimplemented)>>)])
    ELSE v

\* ClusterEncoder.check(obj)
check(v, unimplemented) ==
    LET a(name) == getattr(v.id, name, unimplemented)
    IN  IF v.k # "object" THEN v
        ELSE CASE Class(v.id) = "ExecutionHost" ->
                    MkDict([type |-> PyScalar("ExecutionHost"),
                            name |-> a("name"),
                            num_slots |-> a("num_slots_for_job"),
                            url |-> reverse("olw_host_view", <<a("name")>>)])
               [] Class(v.id) = "Host" ->
                    MkDict([type |-> PyScalar("Host"),
                            name |-> a("name"),
                            url |-> reverse("olw_host_view", <<a("name")>>)])
               [] Class(v.id) = "Job" ->
                    MkDict([type |-> PyScalar("Job"),
                            name |-> a("name"),
                            job_id |-> a("job_id"),
                            array_index |-> a("array_index"),
                            url |-> reverse("olw_job_view_array", <<a("job_id"), a("array_index")>>),
                            user_name |-> a("user_name"),
                            user_url |-> reverse("olw_user_view", <<a("user_name")>>),
                            status |-> a("status"),
                            submit_time |-> a("submit_time"),
                            start_time |-> a("start_time"),
                            end_time |-> a("end_time")])
               [] Class(v.id) = "Queue" ->
                    MkDict([type |-> PyScalar("Queue"),
                            name |-> a("name"),
                            url |-> reverse("olw_queue_view", <<a("name")>>)])
               [] OTHER -> v

\* The value default() stores for one attribute: resolved if callable, then
\* checked, element by element if it is a list.
AttrValue(id, name, unimplemented) ==
    LET got == getattr(id, name, unimplemented)
        value == IF got.k = "callable" THEN got.ret ELSE got
    IN  IF value.k = "list"
        THEN MkList([i \in 1..Len(value.items) |-> check(value.items[i], unimplemented)])
        ELSE check(value, unimplemented)

\* A default that leaves out the attributes that have to be called.
default_skipping_callables(v, unimplemented) ==
    LET names == {n \in Range(json_attributes(v.id)) : Attr(v.id, n).k # "callable"}
    IN  MkDict([n \in {"type"} \cup names |->
                   IF n = "type" THEN PyScalar(Class(v.id))
                   ELSE AttrValue(v.id, n, unimplemented)])

\* A default that leaves out the attributes whose accessor raises.
default_best_effort(v, unimplemented) ==
    LET names == {n \in Range(json_attributes(v.id)) :
                     AttrValue(v.id, n, unimplemented).k # "raise"}
    IN  PyDict([n \in {"type"} \cup names |->
                   IF n = "type" THEN PyScalar(Class(v.id))
                   ELSE AttrValue(v.id, n, unimplemented)])

\* ClusterEncoder.default(obj)
default(v, unimplemented) ==
    IF v.k = "timedelta"
    THEN PyScalar(v.seconds)
    ELSE MkDict([n \in {"type"} \cup Range(json_attributes(v.id)) |->
                    IF n = "type" THEN PyScalar(Class(v.id))
                    ELSE AttrValue(v.id, n, unimplemented)])

\* Documents: JSON scalars, arrays and objects; an encode that raised; an
\* encode that did not come to an end within the nesting budget.
Failed(d) == d.t \in {"error", "overflow"}

\* json.dumps(value, cls=ClusterEncoder): scalars, lists and dicts are encoded
\* by the library, anything else goes through default() and is encoded again.
RECURSIVE encode(_, _, _)
encode(v, unimplemented, budget) ==
    IF budget = 0 THEN [t |-> "overflow"]
    ELSE CASE v.k = "scalar" -> [t |-> "scalar", v |-> v.v]
           [] v.k = "list" ->
                LET items == [i \in 1..Len(v.items) |->
                                 encode(v.items[i], unimplemented, budget - 1)]
                IN  IF \E i \in 1..Len(items) : Failed(items[i])
                    THEN items[CHOOSE i \in 1..Len(items) : Failed(items[i])]
                    ELSE [t |-> "array", items |-> items]
           [] v.k = "dict" ->
                LET members == [n \in DOMAIN v.d |->
                                   encode(v.d[n], unimplemented, budget - 1)]
                IN  IF \E n \in DOMAIN members : Failed(members[n])
                    THEN members[CHOOSE n \in DOMAIN members : Failed(members[n])]
                    ELSE [t |-> "object", members |-> members]
           [] v.k \in {"object", "timedelta"} ->
                LET d == default(v, unimplemented)
                IN  IF d.k = "raise" THEN [t |-> "error", cls |-> d.cls]
                    ELSE encode(d, unimplemented, budget)
           [] v.k = "callable" -> [t |-> "error", cls |-> "AttributeError"]

\* create_js_response(data=entity): the document made of data, or the failure
\* of json.dumps.
dumps(e) == encode(PyObject(e.id), e.unimplemented, MaxNesting)

\* ClusterException.__init__(message, **kwargs) of class cls.
ClusterException_init(cls, message, kwargs) ==
    [t |-> "exc", cls |-> cls, message |-> message,
     extras |-> DOMAIN kwargs, attrs |-> kwargs]

\* ClusterException.to_json(): the fields before they are dumped.
to_json(e) ==
    [n \in {"status", "type", "message"} \cup e.extras |->
        CASE n = "status" -> "Fail"
          [] n = "type" -> "Exception"
          [] n = "message" -> e.message
          [] OTHER -> e.attrs[n]]

\* Accessors a partial backend may leave unimplemented.
PartialNames == {"begin_time", "name", "jobs"}

\* Keyword arguments a failure may be raised with.
ExtraNames == {"job_id", "host_name"}

Entities == [t : {"entity"}, id : Objects, unimplemented : SUBSET PartialNames]

Exceptions ==
    {ClusterException_init(cls, "failed", [n \in names |-> "x"]) :
        cls \in ClusterExceptionClasses, names \in SUBSET ExtraNames}

\* datetime.datetime.fromtimestamp(ts): the wall clock of the local zone,
\* utcoffset ahead of UTC; datetime.datetime.utcfromtimestamp(ts): that of UTC.
fromtimestamp(ts, utcoffset) == [wall |-> ts + utcoffset]

utcfromtimestamp(ts) == [wall |-> ts]

\* The base attributes of JobBase that have a *_datetime_local view.
TimeNames ==
    {"begin_time", "predicted_start_time", "end_time", "reservation_time",
     "start_time", "submit_time", "termination_time"}

\* Views that all read the local zone.
datetime_all_local(name, ts, utcoffset) == fromtimestamp(ts, utcoffset)

\* JobBase.<name>_datetime_local
datetime_local(name, ts, utcoffset) ==
    CASE name = "begin_time" -> fromtimestamp(ts, utcoffset)
      [] name = "predicted_start_time" -> fromtimestamp(ts, utcoffset)
      [] name = "end_time" -> utcfromtimestamp(ts)
      [] name = "reservation_time" -> fromtimestamp(ts, utcoffset)
      [] name = "start_time" -> utcfromtimestamp(ts)
      [] name = "submit_time" -> fromtimestamp(ts, utcoffset)
      [] name = "termination_time" -> fromtimestamp(ts, utcoffset)

Timestamps == {10, 20}

ZoneOffsets == {0, 2}

\* A job's epoch-second attributes, and the zone of the process reading them.
JobTimes == [t : {"times"}, epoch : [TimeNames -> Timestamps], utcoffset : ZoneOffsets]

\* Most hosts a cluster of the model has.
MaxHosts == 2

HostRecords == [name : {"h1", "h2"}, is_down : BOOLEAN]

HostLists == UNION {[1..n -> HostRecords] : n \in 0..MaxHosts}

\* What ClusterBase.hosts() returns.
Clusters == [t : {"cluster"}, hosts : HostLists]

\* A problem_hosts that returns every host.
problem_hosts_all(hosts) == hosts

\* ClusterBase.problem_hosts()
problem_hosts(hosts) == SelectSeq(hosts, LAMBDA host : host.is_down)

\* The hosts system_overview_hosts looks at: is_server, is_down, is_busy,
\* is_closed and the number of jobs host.jobs() returns.
OverviewHostRecords ==
    [is_server : BOOLEAN, is_down : BOOLEAN, is_busy : BOOLEAN,
     is_closed : BOOLEAN, jobs : {0, 1}]

OverviewHostLists == UNION {[1..n -> OverviewHostRecords] : n \in 0..MaxHosts}

Overviews == [t : {"overview"}, hosts : OverviewHostLists]

\* The labels of the states dictionary, all counts zero.
Labels == {"Down", "Full", "In Use", "Empty", "Closed"}
states0 == [k \in Labels |-> 0]

\* states[label] += 1
Incr(states, label) == [states EXCEPT ![label] = @ + 1]

\* A loop body with independent tests in place of the if/elif chain.
count_host_independent(host, states) ==
    IF ~host.is_server THEN states
    ELSE LET s1 == IF host.is_down THEN Incr(states, "Down") ELSE states
             s2 == IF host.is_busy THEN Incr(s1, "Full") ELSE s1
             s3 == IF host.is_closed THEN Incr(s2, "Closed") ELSE s2
             s4 == IF host.jobs > 0 THEN Incr(s3, "In Use") ELSE s3
         IN  IF s4 = states THEN Incr(states, "Empty") ELSE s4

\* The body of the loop over cluster.hosts().
count_host(host, states) ==
    IF ~host.is_server THEN states
    ELSE IF host.is_down THEN Incr(states, "Down")
    ELSE IF host.is_busy THEN Incr(states, "Full")
    ELSE IF host.is_closed THEN Incr(states, "Closed")
    ELSE IF host.jobs > 0 THEN Incr(states, "In Use")
    ELSE Incr(states, "Empty")

\* for host in cluster.hosts(): ...
RECURSIVE count_hosts(_, _)
count_hosts(hosts, states) ==
    IF hosts = <<>> THEN states
    ELSE count_hosts(Tail(hosts), count_host(Head(hosts), states))

\* system_overview_hosts: the label/value pairs handed to create_js_response.
system_overview_hosts(hosts) == count_hosts(hosts, states0)

PyNone == [k |-> "none"]

\* Names and values of the keyword arguments a Process is constructed with.
ExtensionNames == {"state", "cpu", "extras"}

ExtensionValues == {PyScalar("x"), PyList(<<>>)}

Perms(S) ==
    {f \in [1..Cardinality(S) -> S] :
        \A i, j \in 1..Cardinality(S) : i # j => f[i] # f[j]}

\* Process(hostname, process_id, **kwargs), with the order in which
\* kwargs.iteritems() yields the keyword arguments.
ProcessArgs ==
    UNION {[t : {"process"}, kwargs : [names -> ExtensionValues], order : Perms(names)] :
              names \in SUBSET ExtensionNames}

\* setattr(self, k, v)
setattr(self, k, v) == (k :> v) @@ self

\* The body of the loop of Process.__init__ from the i-th keyword argument on:
\* setattr(self, k, v); self.extras.append(k).
RECURSIVE Process_init_loop(_, _, _, _)
Process_init_loop(self, kwargs, order, i) ==
    IF i > Len(order) THEN self
    ELSE LET k == order[i]
             set == setattr(self, k, kwargs[k])
         IN  IF set["extras"].k # "list"
             THEN PyRaise("AttributeError")
             ELSE Process_init_loop(
                      [set EXCEPT !["extras"] = PyList(Append(@.items, k))],
                      kwargs, order, i + 1)

\* Process.__init__
Process_init(hostname, process_id, kwargs, order) ==
    Process_init_loop([hostname |-> PyScalar(hostname),
                       process_id |-> PyScalar(process_id),
                       extras |-> PyList(<<>>)],
                      kwargs, order, 1)

\* Process.json_attributes(self)
Process_json_attributes_of(self) == <<"hostname", "process_id">> \o self["extras"].items

\* str(v)
str(v) == IF v.k = "none" THEN "None" ELSE v.v

\* ConsumedResource(name, value, limit=None, unit=None)
ConsumedArgs ==
    [t : {"consumed"}, name : {PyScalar("mem")}, value : {PyScalar("100")},
     limit : {PyNone, PyScalar("200")}, unit : {PyNone, PyScalar("MB")}]

\* ConsumedResource.__init__
ConsumedResource_init(name, value, limit, unit) ==
    [name |-> str(name), value |-> str(value), limit |-> str(limit), unit |-> str(unit)]

\* ConsumedResource.__str__: the pieces of the text, in order.
ConsumedResource_str(self) ==
    <<self.name, ": ", self.value>>
        \o (IF self.unit # "" THEN <<self.unit>> ELSE <<>>)
        \o (IF self.limit # "" THEN <<" (", self.limit, ")">> ELSE <<>>)

\* One object is handed to the resource model while no request is in progress.
ResourceInit ==
    /\ op = "none"
    /\ req = NoRequest
    /\ parentPc = "idle"
    /\ workerPc = "none"
    /\ parentEuid = ServerIdentity
    /\ workerEuid = "none"
    /\ workerExc = Null
    /\ workerRet = Null
    /\ channel = <<>>
    /\ rc = Null
    /\ response = Null
    /\ schedLog = <<>>
    /\ nSpawn = 0
    /\ nPut = 0
    /\ nGet = 0
    /\ target = NoTarget
    /\ workerCred = NoCred
    /\ feeder = "idle"
    /\ slot = NoSlots
    /\ mpq = NoQueues
    /\ obj \in Entities \cup Exceptions \cup JobTimes \cup Clusters
                 \cup ProcessArgs \cup ConsumedArgs \cup Overviews
    /\ doc = Null

\* json.dumps(..., cls=ClusterEncoder) of an entity.
Dumps ==
    /\ obj.t = "entity"
    /\ doc.t = "null"
    /\ doc' = dumps(obj)
    /\ UNCHANGED obj
    /\ UNCHANGED execVars
    /\ UNCHANGED concVars

\* e.json_response()
JsonResponse ==
    /\ obj.t = "exc"
    /\ doc.t = "null"
    /\ doc' = json_response(obj)
    /\ UNCHANGED obj
    /\ UNCHANGED execVars
    /\ UNCHANGED concVars

\* e.to_json()
ToJson ==
    /\ obj.t = "exc"
    /\ doc.t = "null"
    /\ doc' = [t |-> "fields", d |-> to_json(obj)]
    /\ UNCHANGED obj
    /\ UNCHANGED execVars
    /\ UNCHANGED concVars

\* The *_datetime_local properties of a job.
DatetimeViews ==
    /\ obj.t = "times"
    /\ doc.t = "null"
    /\ doc' = [t |-> "datetimes",
               views |-> [n \in TimeNames |->
                             datetime_local(n, obj.epoch[n], obj.utcoffset)]]
    /\ UNCHANGED obj
    /\ UNCHANGED execVars
    /\ UNCHANGED concVars

\* cluster.problem_hosts()
ProblemHosts ==
    /\ obj.t = "cluster"
    /\ doc.t = "null"
    /\ doc' = [t |-> "hosts", items |-> problem_hosts(obj.hosts)]
    /\ UNCHANGED obj
    /\ UNCHANGED execVars
    /\ UNCHANGED concVars

\* Process(...) and then its json_attributes().
ProcessAttributes ==
    /\ obj.t = "process"
    /\ doc.t = "null"
    /\ LET self == Process_init("host", "pid", obj.kwargs, obj.order)
       IN  doc' = IF DOMAIN self = {"k", "cls"}
                  THEN [t |-> "error", cls |-> self.cls]
                  ELSE [t |-> "attributes", names |-> Process_json_attributes_of(self)]
    /\ UNCHANGED obj
    /\ UNCHANGED execVars
    /\ UNCHANGED concVars

\* str(ConsumedResource(...))
ConsumedResourceText ==
    /\ obj.t = "consumed"
    /\ doc.t = "null"
    /\ doc' = [t |-> "text",
               pieces |-> ConsumedResource_str(
                   ConsumedResource_init(obj.name, obj.value, obj.limit, obj.unit))]
    /\ UNCHANGED obj
    /\ UNCHANGED execVars
    /\ UNCHANGED concVars

\* system_overview_hosts(request)
SystemOverviewHosts ==
    /\ obj.t = "overview"
    /\ doc.t = "null"
    /\ doc' = [t |-> "states", value |-> system_overview_hosts(obj.hosts)]
    /\ UNCHANGED obj
    /\ UNCHANGED execVars
    /\ UNCHANGED concVars

ResourceNext ==
    \/ Dumps
    \/ JsonResponse
    \/ ToJson
    \/ DatetimeViews
    \/ ProblemHosts
    \/ ProcessAttributes
    \/ ConsumedResourceText
    \/ SystemOverviewHosts

ResourceSpec == ResourceInit /\ [][ResourceNext]_vars

\* C13: the record json_response() makes of a failure holds exception_class,
\* message and every extra named field the failure was raised with.
C13_RecordCarriesExtras ==
    (obj.t = "exc" /\ doc.t = "dict")
        => /\ doc.exception_class = obj.cls
           /\ doc.message = obj.message
           /\ \A n \in obj.extras : n \in DOMAIN doc /\ doc[n] = obj.attrs[n]

\* C14: the full-mode document of a host, job, queue or user has as keys the
\* type key and the names of the type's json_attributes, no more and no less.
C14_FullModeKeySet ==
    (obj.t = "entity" /\ Class(obj.id) \in {"Host", "Job", "Queue", "User"}
                      /\ doc.t = "object")
        => /\ DOMAIN doc.members = {"type"} \cup Range(json_attributes(obj.id))
           /\ doc.members["type"] = [t |-> "scalar", v |-> Class(obj.id)]

\* C14 witness: a queue, whose jobs attribute has to be called, was encoded.
C14_Witness ==
    /\ obj.t = "entity"
    /\ obj.id = "queue"
    /\ doc.t = "object"
    /\ "jobs" \in DOMAIN doc.members

\* The attribute value after default() has called it if it is callable.
Resolved(id, name) ==
    IF Attr(id, name).k = "callable" THEN Attr(id, name).ret ELSE Attr(id, name)

\* Document d shows object id as a stub: its type, a locator, and not the
\* attributes of its json_attributes.
ReferenceMode(d, id) ==
    /\ d.t = "object"
    /\ "url" \in DOMAIN d.members
    /\ d.members["type"] = [t |-> "scalar", v |-> Class(id)]
    /\ DOMAIN d.members # {"type"} \cup Range(json_attributes(id))

\* Document d shows object id with all the attributes of its json_attributes.
FullMode(d, id) ==
    /\ d.t = "object"
    /\ DOMAIN d.members = {"type"} \cup Range(json_attributes(id))

\* Every object of one of the classes that is an attribute value, or an element
\* of a list-valued attribute, of the encoded entity satisfies shown(d, id).
NestedObjects(classes, shown(_, _)) ==
    \A n \in Range(json_attributes(obj.id)) :
        LET r == Resolved(obj.id, n)
        IN  /\ (r.k = "object" /\ Class(r.id) \in classes)
                  => shown(doc.members[n], r.id)
            /\ r.k = "list"
                  => \A i \in 1..Len(r.items) :
                        (r.items[i].k = "object" /\ Class(r.items[i].id) \in classes)
                            => shown(doc.members[n].items[i], r.items[i].id)

AllClasses == {Class(id) : id \in Objects}

\* C15 (as stated): every object nested in an entity's document is a stub.
C15_EveryNestedIsStub ==
    (obj.t = "entity" /\ doc.t = "object")
        => NestedObjects(AllClasses, ReferenceMode)

\* C15 (amended): a nested Host, ExecutionHost, Job or Queue is a stub; a
\* nested object of any other class is shown with its full attribute set.
C15_CheckedClassesAreStubs ==
    (obj.t = "entity" /\ doc.t = "object")
        => /\ NestedObjects(StubClasses, ReferenceMode)
           /\ NestedObjects(AllClasses \ StubClasses, FullMode)

\* C15 witness: a queue was encoded and its first job is shown as a stub.
C15_Witness ==
    /\ obj.t = "entity"
    /\ obj.id = "queue"
    /\ doc.t = "object"
    /\ ReferenceMode(doc.members["jobs"].items[1], "job1")

Max(S) == CHOOSE x \in S : \A y \in S : y <= x

\* Nesting depth of a document.
RECURSIVE Depth(_)
Depth(d) ==
    CASE d.t = "array" ->
            Max({0} \cup {Depth(d.items[i]) : i \in 1..Len(d.items)}) + 1
      [] d.t = "object" ->
            Max({0} \cup {Depth(d.members[n]) : n \in DOMAIN d.members}) + 1
      [] OTHER -> 0

\* C16: encoding an entity comes to an end, with a document (or a failure)
\* nested less deep than the budget, also when the entities refer to each
\* other in a cycle.
C16_EncodingTerminates ==
    (obj.t = "entity" /\ doc.t # "null")
        => /\ doc.t # "overflow"
           /\ Depth(doc) < MaxNesting

\* C16 witness: job1, whose queue lists job1 again, was encoded.
C16_Witness ==
    /\ obj.t = "entity"
    /\ obj.id = "job1"
    /\ Attr("job1", "queue") = PyObject("queue")
    /\ \E i \in 1..Len(JobsOf("queue")) : JobsOf("queue")[i] = PyObject("job1")
    /\ doc.t = "object"
    /\ ReferenceMode(doc.members["queue"], "queue")

\* An accessor that full-mode projection of the entity uses is unimplemented.
AccessorFails(e) ==
    /\ Class(e.id) \in BackendClasses
    /\ \E n \in Range(json_attributes(e.id)) : n \in e.unimplemented

\* C18: when an attribute accessor of the entity fails, encoding the entity
\* fails as a whole: the outcome is the failure, not a document.
C18_AccessorFailureFailsEncode ==
    (obj.t = "entity" /\ doc.t # "null" /\ AccessorFails(obj))
        => doc.t = "error"

\* C18 witness: a job whose begin_time is not implemented was encoded and the
\* encode failed.
C18_Witness ==
    /\ obj.t = "entity"
    /\ obj.id = "job1"
    /\ "begin_time" \in obj.unimplemented
    /\ doc.t = "error"
    /\ doc.cls = "NotImplementedError"

\* C22: the document of a job whose status is suspended-while-pending shows
\* is_pending and is_suspended true and is_running, is_completed and is_failed
\* false.
C22_SuspendedWhilePendingFlags ==
    (obj.t = "entity" /\ Class(obj.id) = "Job" /\ doc.t = "object"
        /\ doc.members["status"].members["name"].v = "JOB_STAT_PSUSP")
        => /\ doc.members["is_pending"].v = TRUE
           /\ doc.members["is_suspended"].v = TRUE
           /\ doc.members["is_running"].v = FALSE
           /\ doc.members["is_completed"].v = FALSE
           /\ doc.members["is_failed"].v = FALSE

\* C23: the datetime views of submit, begin, predicted start, reservation and
\* termination time are the local wall clock of their epoch seconds, those of
\* start and end time the UTC wall clock; each depends on its own base
\* attribute only.
C23_DatetimeZones ==
    (obj.t = "times" /\ doc.t = "datetimes")
        => /\ \A n \in {"submit_time", "begin_time", "predicted_start_time",
                        "reservation_time", "termination_time"} :
                 doc.views[n].wall = obj.epoch[n] + obj.utcoffset
           /\ \A n \in {"start_time", "end_time"} :
                 doc.views[n].wall = obj.epoch[n]

\* C23 witness: away from UTC, a job submitted and started at the same second
\* shows two different wall clocks.
C23_Witness ==
    /\ obj.t = "times"
    /\ obj.utcoffset # 0
    /\ obj.epoch["start_time"] = obj.epoch["submit_time"]
    /\ doc.t = "datetimes"
    /\ doc.views["start_time"].wall # doc.views["submit_time"].wall

\* C24: problem_hosts returns the hosts that are down, each as often as hosts
\* has it, and nothing else; so it is a subset of hosts.
C24_ProblemHostsAreDownHosts ==
    (obj.t = "cluster" /\ doc.t = "hosts")
        => /\ Range(doc.items) = {h \in Range(obj.hosts) : h.is_down}
           /\ Range(doc.items) \subseteq Range(obj.hosts)
           /\ Len(doc.items)
                 = Cardinality({i \in 1..Len(obj.hosts) : obj.hosts[i].is_down})

\* C24 witness: of a cluster's hosts some, not all, are down and were returned.
C24_Witness ==
    /\ obj.t = "cluster"
    /\ doc.t = "hosts"
    /\ Len(doc.items) > 0
    /\ Len(doc.items) < Len(obj.hosts)

\* C25: the json_attributes of a constructed Process are hostname and
\* process_id followed by the names of the keyword arguments it was constructed
\* with, each name once.
C25_ProcessAttributes ==
    (obj.t = "process" /\ doc.t = "attributes")
        => /\ Len(doc.names) = 2 + Cardinality(DOMAIN obj.kwargs)
           /\ doc.names[1] = "hostname"
           /\ doc.names[2] = "process_id"
           /\ {doc.names[i] : i \in 3..Len(doc.names)} = DOMAIN obj.kwargs

\* C26: the text of a ConsumedResource is "name: value", then the unit if a
\* unit was given, then the limit in parentheses if a limit was given.
C26_ConsumedResourceText ==
    (obj.t = "consumed" /\ doc.t = "text")
        => doc.pieces
              = <<obj.name.v, ": ", obj.value.v>>
                   \o (IF obj.unit.k # "none" THEN <<obj.unit.v>> ELSE <<>>)
                   \o (IF obj.limit.k # "none" THEN <<" (", obj.limit.v, ")">> ELSE <<>>)

-----------------------------------------------------------------------------
\* Declared projection lists against the accessors of the entity types.

\* ClusterBase.json_attributes()
ClusterBase_json_attributes ==
    <<"cluster_type", "admins", "name", "main", "hosts", "problem_hosts",
      "queues", "jobs", "resources">>

\* Accessors: the properties and methods ClusterBase defines.
ClusterBase_accessors ==
    {"name", "main", "hosts", "queues", "jobs", "users", "problem_hosts",
     "resources", "admins"}

\* Accessors: the properties JobBase defines.
JobBase_accessors ==
    {"job_id", "array_index", "admins", "begin_time_datetime_local",
     "predicted_start_time_datetime_local", "end_time_datetime_local",
     "cpu_time_timedelta", "reservation_time_datetime_local",
     "start_time_datetime_local", "submit_time_datetime_local",
     "termination_time_datetime_local", "begin_time", "command",
     "consumed_resources", "cpu_time", "dependency_condition", "email_user",
     "end_time", "error_file_name", "execution_hosts", "input_file_name",
     "is_completed", "is_failed", "is_pending", "is_running", "is_suspended",
     "max_requested_slots", "name", "options", "output_file_name",
     "pending_reasons", "predicted_start_time", "priority", "process_id",
     "processes", "project_names", "requested_resources", "requested_slots",
     "reservation_time", "runtime_limits", "start_time", "status",
     "submission_host", "submit_time", "suspension_reasons", "termination_time",
     "user_name", "user_priority", "queue", "requested_hosts"}

\* Accessors: the properties and methods HostBase defines and the attributes its
\* __init__ sets, without the operations open and close.
HostBase_accessors ==
    {"name", "host_name", "description", "has_checkpoint_support", "host_model",
     "host_type", "resources", "max_jobs", "max_processors", "max_ram",
     "max_slots", "max_swap", "max_tmp", "num_reserved_slots", "num_running_jobs",
     "num_running_slots", "num_suspended_jobs", "num_suspended_slots", "statuses",
     "total_jobs", "total_slots", "jobs", "load_information"}

\* Accessors: UserBase defines nothing but json_attributes.
UserBase_accessors ==
    {}

\* Accessors: the class attribute and the method QueueBase defines, without the
\* operations close, open, inactivate, activate and get_queue_list.
QueueBase_accessors ==
    {"cluster_type", "jobs"}

EntityTypes == {"Cluster", "Job", "Host", "User", "Queue"}

\* The declared projection list and the accessor set of an entity type.
Declared(type) ==
    CASE type = "Cluster" -> ClusterBase_json_attributes
      [] type = "Job" -> JobBase_json_attributes
      [] type = "Host" -> HostBase_json_attributes
      [] type = "User" -> UserBase_json_attributes
      [] type = "Queue" -> QueueBase_json_attributes

Accessors(type) ==
    CASE type = "Cluster" -> ClusterBase_accessors
      [] type = "Job" -> JobBase_accessors
      [] type = "Host" -> HostBase_accessors
      [] type = "User" -> UserBase_accessors
      [] type = "Queue" -> QueueBase_accessors

\* The entity type of the object at hand.
TypeOf(o) ==
    CASE o.t = "entity" -> Class(o.id)
      [] o.t = "cluster" -> "Cluster"
      [] OTHER -> "none"

\* C27: for the type of every entity, the names of the declared projection
\* list are the names of the type's accessors: each declared name has an
\* accessor and each accessor (for Cluster: users) is declared.
C27_ListMatchesAccessors ==
    TypeOf(obj) \in EntityTypes
        => Range(Declared(TypeOf(obj))) = Accessors(TypeOf(obj))

\* The server hosts of the overview at hand, by position, and the category the
\* priority order Down, Full, Closed, In Use, Empty gives a host.
ServerHosts == {i \in 1..Len(obj.hosts) : obj.hosts[i].is_server}

Category(host) ==
    CASE host.is_down -> "Down"
      [] ~host.is_down /\ host.is_busy -> "Full"
      [] ~host.is_down /\ ~host.is_busy /\ host.is_closed -> "Closed"
      [] ~host.is_down /\ ~host.is_busy /\ ~host.is_closed /\ host.jobs > 0 -> "In Use"
      [] OTHER -> "Empty"

\* C39: system_overview_hosts counts every server host in exactly one of the
\* categories Down, Full, Closed, In Use, Empty, chosen by that priority, and
\* ignores the other hosts: each count is the number of server hosts of that
\* category and the five counts sum to the number of server hosts.
C39_CountsPartitionServerHosts ==
    (obj.t = "overview" /\ doc.t = "states") =>
        /\ DOMAIN doc.value = Labels
        /\ \A k \in Labels :
              doc.value[k] = Cardinality({i \in ServerHosts : Category(obj.hosts[i]) = k})
        /\ doc.value["Down"] + doc.value["Full"] + doc.value["Closed"]
              + doc.value["In Use"] + doc.value["Empty"] = Cardinality(ServerHosts)

\* C39 witness: a closed server host that is also busy and has jobs was counted
\* as Full, next to a host that is no server and was not counted.
C39_Witness ==
    /\ obj.t = "overview"
    /\ doc.t = "states"
    /\ Len(obj.hosts) = 2
    /\ obj.hosts[1] = [is_server |-> TRUE, is_down |-> FALSE, is_busy |-> TRUE,
                       is_closed |-> TRUE, jobs |-> 1]
    /\ ~obj.hosts[2].is_server
    /\ doc.value["Full"] = 1
    /\ doc.value["Closed"] = 0

====
